---- MODULE Spec2Model ----
(***************************************************************************)
(* Retrieval engine (Source/Services/search_on_index.py) and RAG           *)
(* orchestrator (Source/Services/free_chat.py) of Moodle-freechat.         *)
(*                                                                         *)
(* A Python str is a sequence of symbols.  A symbol is one character, or   *)
(* one of the words of the filter grammar (source_id, eq, and, ...) taken  *)
(* as a single symbol.  str.replace, f-strings and str.join act on these   *)
(* sequences exactly as they act on characters.                            *)
(*                                                                         *)
(* One behaviour is one call of a public coroutine.  The coroutines run    *)
(* on a call stack; an action is the code between two suspension points    *)
(* (an await or a search-backend request).                                 *)
(***************************************************************************)
EXTENDS Integers, Sequences, FiniteSets, TLC

VARIABLES
    index,      \* the chunks held by the search backend
    stack,      \* call stack of coroutine frames, the running frame last
    ret,        \* value returned by the frame that returned last
    calls,      \* history: every collaborator request and its outcome
    rets,       \* history: every frame that returned, and its value
    tasks,      \* the requests suspended on the event loop, each with its
                \* own stack, ret, calls and rets
    prompts_dir,     \* the prompt files on disk: file name to parsed sections
    _prompts_cache,  \* PromptLoader._prompts_cache: prompt type to sections
    _cache_loaded,   \* PromptLoader._cache_loaded
    clients,    \* the clients of the orchestrator that have not been closed
    lists       \* the Python list objects that hold a conversation history:
                \* lists[ref] is the entries of the list object ref

vars == <<index, stack, ret, calls, rets, tasks, prompts_dir, _prompts_cache, _cache_loaded, clients, lists>>

\* what the steps of one request leave alone: the other requests, the prompt
\* loader, the clients and the list objects
beyond == <<tasks, prompts_dir, _prompts_cache, _cache_loaded, clients, lists>>

\* the clients the application holds: those of the RAGSystem (its completion
\* client, the embedding client and the search client of its search system,
\* the storage client of its blob manager) and the completion client of the
\* AssistantHelper
RAGClients ==
    {"openai_client", "search_system.openai_client", "search_system.search_client",
     "blob_manager._async_client"}
Clients == RAGClients \cup {"assistant_helper.openai_client"}

\* one request alone on a started application: no other request, no prompt
\* file read, every client open
NothingBeyond ==
    /\ tasks = <<>>
    /\ prompts_dir = <<>>
    /\ _prompts_cache = <<>>
    /\ _cache_loaded = FALSE
    /\ clients = Clients

-----------------------------------------------------------------------------
(* Bounds of the model *)

\* longest result list the backend answers a ranked query with
MaxHits == 2
\* largest top_k / k a caller passes
MaxTopK == 2
\* longest identifier drawn for the filter construction check
MaxIdLen == 2
\* chunks in a list handed to _build_context_from_chunks
MaxChunks == 3

-----------------------------------------------------------------------------
(* Python values *)

\* Python None where a str is expected
None == <<"<None>">>

\* truth value of an Optional[str]: None and "" are false
Truthy(s) == s # None /\ s # <<>>

\* the escaping left out
replace_quote_omitted(s) == s

\* s.replace("'", "''")
RECURSIVE replace_quote(_)
replace_quote(s) ==
    IF s = <<>> THEN <<>>
    ELSE (IF Head(s) = "'" THEN <<"'", "'">> ELSE <<Head(s)>>)
         \o replace_quote(Tail(s))

\* " and ".join(filters)
RECURSIVE join_and(_)
join_and(filters) ==
    IF Len(filters) = 1 THEN filters[1]
    ELSE filters[1] \o <<" ", "and", " ">> \o join_and(Tail(filters))

Digits == <<"0", "1", "2", "3", "4", "5", "6", "7", "8", "9">>

\* str(n) of a non-negative int
RECURSIVE nat_str(_)
nat_str(n) ==
    IF n < 10 THEN <<Digits[n + 1]>>
    ELSE nat_str(n \div 10) \o <<Digits[(n % 10) + 1]>>

\* str(n) of an int, as an f-string renders {n}
int_str(n) == IF n < 0 THEN <<"-">> \o nat_str(0 - n) ELSE nat_str(n)

\* docs[:n]
Slice(docs, n) == SubSeq(docs, 1, IF n < Len(docs) THEN n ELSE Len(docs))

-----------------------------------------------------------------------------
(* Filter construction *)

\* search_params without a "filter" key
NoFilter == None

\* f"source_id eq '{escaped_source_id}'"
source_id_predicate(source_id) ==
    <<"source_id", " ", "eq", " ", "'">> \o replace_quote(source_id) \o <<"'">>

\* f"course_id eq '{escaped_course_id}'"
course_id_predicate(course_id) ==
    <<"course_id", " ", "eq", " ", "'">> \o replace_quote(course_id) \o <<"'">>

\* the filter of simple_text_search
simple_text_search_filter(source_id, course_id) ==
    LET filters ==
            (IF Truthy(source_id) THEN <<source_id_predicate(source_id)>> ELSE <<>>)
            \o (IF Truthy(course_id) THEN <<course_id_predicate(course_id)>> ELSE <<>>)
    IN  IF filters # <<>> THEN join_and(filters) ELSE NoFilter

\* the filter of hybrid_search
hybrid_search_filter(source_id, course_id) ==
    LET filters ==
            (IF Truthy(source_id) THEN <<source_id_predicate(source_id)>> ELSE <<>>)
            \o (IF Truthy(course_id) THEN <<course_id_predicate(course_id)>> ELSE <<>>)
    IN  IF filters # <<>> THEN join_and(filters) ELSE NoFilter

\* the filter built with "is not None" tests: an empty identifier gets a predicate
semantic_search_filter_for_empty(source_id, course_id) ==
    LET filters ==
            (IF source_id # None THEN <<source_id_predicate(source_id)>> ELSE <<>>)
            \o (IF course_id # None THEN <<course_id_predicate(course_id)>> ELSE <<>>)
    IN  IF filters # <<>> THEN join_and(filters) ELSE NoFilter

\* the filter of semantic_search
semantic_search_filter(source_id, course_id) ==
    LET filters ==
            (IF Truthy(source_id) THEN <<source_id_predicate(source_id)>> ELSE <<>>)
            \o (IF Truthy(course_id) THEN <<course_id_predicate(course_id)>> ELSE <<>>)
    IN  IF filters # <<>> THEN join_and(filters) ELSE NoFilter

\* before_filter of get_adjacent_chunks
before_filter(source_id, course_id, chunk_index) ==
    <<"source_id", " ", "eq", " ", "'">> \o replace_quote(source_id) \o <<"'">>
    \o <<" ", "and", " ">>
    \o <<"course_id", " ", "eq", " ", "'">> \o replace_quote(course_id) \o <<"'">>
    \o <<" ", "and", " ">>
    \o <<"chunk_index", " ", "eq", " ">> \o int_str(chunk_index - 1)

\* the filter of a lookup two indices ahead
after_filter_two_ahead(source_id, course_id, chunk_index) ==
    <<"source_id", " ", "eq", " ", "'">> \o replace_quote(source_id) \o <<"'">>
    \o <<" ", "and", " ">>
    \o <<"course_id", " ", "eq", " ", "'">> \o replace_quote(course_id) \o <<"'">>
    \o <<" ", "and", " ">>
    \o <<"chunk_index", " ", "eq", " ">> \o int_str(chunk_index + 2)

\* after_filter of get_adjacent_chunks
after_filter(source_id, course_id, chunk_index) ==
    <<"source_id", " ", "eq", " ", "'">> \o replace_quote(source_id) \o <<"'">>
    \o <<" ", "and", " ">>
    \o <<"course_id", " ", "eq", " ", "'">> \o replace_quote(course_id) \o <<"'">>
    \o <<" ", "and", " ">>
    \o <<"chunk_index", " ", "eq", " ">> \o int_str(chunk_index + 1)

-----------------------------------------------------------------------------
(* The search backend: how it reads a filter expression (OData $filter).    *)
(* A filter is a conjunction  p and p and ...  of comparisons                *)
(* field eq 'string literal'  or  field eq integer ; inside a string literal *)
(* a quote is written twice.                                                 *)

\* what reading a malformed expression gives
Malformed == [ok |-> FALSE, preds |-> <<>>]

\* reads a string literal whose opening quote is before position i
RECURSIVE ScanLiteral(_, _, _)
ScanLiteral(f, i, acc) ==
    IF i > Len(f) THEN [ok |-> FALSE, value |-> acc, next |-> i]
    ELSE IF f[i] # "'" THEN ScanLiteral(f, i + 1, Append(acc, f[i]))
    ELSE IF i + 1 <= Len(f) /\ f[i + 1] = "'"
         THEN ScanLiteral(f, i + 2, Append(acc, "'"))
    ELSE [ok |-> TRUE, value |-> acc, next |-> i + 1]

IsDigit(c) == \E d \in 1..10 : Digits[d] = c

DigitValue(c) == (CHOOSE d \in 1..10 : Digits[d] = c) - 1

\* reads the digits of an integer from position i
RECURSIVE ScanDigits(_, _, _, _)
ScanDigits(f, i, acc, seen) ==
    IF i <= Len(f) /\ IsDigit(f[i])
    THEN ScanDigits(f, i + 1, 10 * acc + DigitValue(f[i]), TRUE)
    ELSE [ok |-> seen, value |-> acc, next |-> i]

\* reads an integer, with its sign, from position i
ScanInteger(f, i) ==
    IF i <= Len(f) /\ f[i] = "-"
    THEN LET d == ScanDigits(f, i + 1, 0, FALSE)
         IN  [ok |-> d.ok, value |-> 0 - d.value, next |-> d.next]
    ELSE ScanDigits(f, i, 0, FALSE)

FilterFields == {"source_id", "course_id", "chunk_index"}

\* reads the comparisons of f from position i on
RECURSIVE ScanPredicates(_, _, _)
ScanPredicates(f, i, acc) ==
    IF ~(i + 4 <= Len(f) /\ f[i] \in FilterFields
         /\ f[i + 1] = " " /\ f[i + 2] = "eq" /\ f[i + 3] = " ")
    THEN Malformed
    ELSE LET isStr == f[i + 4] = "'"
             lit == IF isStr THEN ScanLiteral(f, i + 5, <<>>)
                    ELSE ScanInteger(f, i + 4)
             sofar == Append(acc, [field |-> f[i],
                                   kind |-> IF isStr THEN "str" ELSE "int",
                                   value |-> lit.value])
         IN  IF ~lit.ok THEN Malformed
             ELSE IF lit.next > Len(f) THEN [ok |-> TRUE, preds |-> sofar]
             ELSE IF lit.next + 2 <= Len(f) /\ f[lit.next] = " "
                     /\ f[lit.next + 1] = "and" /\ f[lit.next + 2] = " "
                  THEN ScanPredicates(f, lit.next + 3, sofar)
             ELSE Malformed

\* the comparisons a filter expression denotes; none for a request without filter
ReadFilter(f) ==
    IF f = NoFilter THEN [ok |-> TRUE, preds |-> <<>>] ELSE ScanPredicates(f, 1, <<>>)

\* the backend rejects a string compared with an integer and conversely
WellTyped(p) == (p.kind = "int") <=> (p.field = "chunk_index")

\* whether the filter expression is one the backend evaluates
Evaluable(f) ==
    LET r == ReadFilter(f)
    IN  r.ok /\ \A n \in 1..Len(r.preds) : WellTyped(r.preds[n])

\* whether chunk c satisfies every comparison of the filter
Satisfies(c, f) ==
    LET r == ReadFilter(f)
    IN  \A n \in 1..Len(r.preds) : c[r.preds[n].field] = r.preds[n].value

\* the chunks of the index a filter selects
Selected(f) == {c \in index : Satisfies(c, f)}

\* the rankings of exactly m chunks of S, no chunk twice
Ranked(S, m) ==
    IF m = 0 THEN {<<>>}
    ELSE {r \in [1..m -> S] : \A a, b \in 1..m : a # b => r[a] # r[b]}

Min(a, b) == IF a < b THEN a ELSE b

\* the result lists a request may yield.  search_text "*" matches every
\* selected chunk, so the list is as long as top allows; any other text
\* matches some of them, ranked in an order the backend chooses
Rankings(search_text, S, top) ==
    LET most == Min(Min(top, Cardinality(S)), MaxHits)
    IN  IF search_text = <<"*">> THEN Ranked(S, most)
        ELSE UNION {Ranked(S, m) : m \in 0..most}

\* outcomes of one request to the backend: it raises, or it yields documents
SearchOutcomes(search_text, f, top) ==
    {[raised |-> TRUE, docs |-> <<>>]}
    \cup (IF Evaluable(f)
          THEN {[raised |-> FALSE, docs |-> d] :
                    d \in Rankings(search_text, Selected(f), top)}
          ELSE {})

\* outcomes of one request to the embedding service: a vector, an empty
\* vector, or an exception
EmbedOutcomes == {"vector", "empty", "raise"}

-----------------------------------------------------------------------------
(* The index, and the arguments the callers pass *)

Chunk(id, source_id, course_id, chunk_index, text) ==
    [id |-> id, source_id |-> source_id, course_id |-> course_id,
     chunk_index |-> chunk_index, text |-> text]

\* a text longer than any preview
LongText == [n \in 1..154 |-> "x"]

\* three consecutive chunks of a source whose id holds a quote (the first with
\* a score, a start_time and an empty end_time), a chunk of another source
\* (with a section_title and a long text), and a chunk whose course_id field
\* is null
Index ==
    {Chunk("q0", <<"a", "'">>, <<"k">>, 0, <<"t0">>)
        @@ ("@search.score" :> 3) @@ ("start_time" :> <<"0:00">>) @@ ("end_time" :> <<>>),
     Chunk("q1", <<"a", "'">>, <<"k">>, 1, <<"t1">>),
     Chunk("q2", <<"a", "'">>, <<"k">>, 2, <<>>),
     Chunk("b0", <<"b">>, <<"k">>, 0, LongText) @@ ("section_title" :> <<"Intro">>),
     Chunk("n7", <<"b">>, None, 7, <<"t4">>)}

Queries == {<<"q">>}
TopKs == 1..MaxTopK
SourceIds == {None, <<>>, <<"a", "'">>, <<"b">>}
CourseIds == {None, <<"k">>}

-----------------------------------------------------------------------------
(* Call stack *)

Top == stack[Len(stack)]

Running(fn, pc) == stack # <<>> /\ Top.fn = fn /\ Top.pc = pc

\* the running frame goes on as frame f
Goto(f) == stack' = [stack EXCEPT ![Len(stack)] = f]

\* the running frame, as f, awaits the coroutine started as frame callee
Await(f, callee) == stack' = Append([stack EXCEPT ![Len(stack)] = f], callee)

\* how a coroutine ends: it returns a value, or an exception leaves it
Returns(value) == [raised |-> FALSE, value |-> value]
Raises == [raised |-> TRUE, value |-> <<>>]

\* the running frame ends as c; the frame that awaits it resumes
Complete(c) ==
    /\ stack' = SubSeq(stack, 1, Len(stack) - 1)
    /\ ret' = c.value
    /\ rets' = Append(rets, [frame |-> Top, raised |-> c.raised,
                             value |-> c.value, end |-> Len(calls')])

\* the running frame returns value
Return(value) == Complete(Returns(value))

\* a frame of simple_text_search, hybrid_search or semantic_search
\* (base: how many collaborator requests had been made when it was called)
SearchFrame(fn, query, top_k, source_id, course_id, base) ==
    [fn |-> fn, pc |-> "start", query |-> query, top_k |-> top_k,
     source_id |-> source_id, course_id |-> course_id, base |-> base]

\* a request to the search backend, as logged
SearchCall(kind, search_text, vector, filter, top, outcome) ==
    [svc |-> "search", kind |-> kind, search_text |-> search_text,
     vector |-> vector, filter |-> filter, top |-> top, outcome |-> outcome]

-----------------------------------------------------------------------------
(* generate_query_embedding *)

\* the vector generate_query_embedding returns: the service's embedding, or
\* [] when the request raised
generate_query_embedding(outcome) ==
    IF outcome = "vector" THEN <<1>> ELSE <<>>

EmbedCall(query, outcome) == [svc |-> "embed", input |-> query, outcome |-> outcome]

-----------------------------------------------------------------------------
(* simple_text_search *)

\* simple_text_search without its except clause: the exception leaves it
simple_text_search_result_unhandled(o) ==
    IF o.raised THEN Raises
    ELSE IF o.docs = <<>> THEN Returns(<<>>)
    ELSE Returns(o.docs)

\* how simple_text_search ends for the outcome of its request: the except
\* clause returns [], "if not docs" returns [], otherwise docs is returned
simple_text_search_result(o) ==
    IF o.raised THEN Returns(<<>>)
    ELSE IF o.docs = <<>> THEN Returns(<<>>)
    ELSE Returns(o.docs)

\* simple_text_search repeating its request once when it raised
simple_text_search_retrying ==
    /\ Running("simple_text_search", "start")
    /\ LET f == Top
           filter == simple_text_search_filter(f.source_id, f.course_id)
       IN  \E o \in SearchOutcomes(f.query, filter, f.top_k) :
               /\ calls' = (IF o.raised
                            THEN Append(calls, SearchCall("text", f.query, FALSE, filter,
                                                          f.top_k, o))
                            ELSE calls)
                           \o <<SearchCall("text", f.query, FALSE, filter, f.top_k, o)>>
               /\ Complete(simple_text_search_result(o))
    /\ UNCHANGED <<index, beyond>>

\* the whole coroutine: it has no await before its return
simple_text_search ==
    /\ Running("simple_text_search", "start")
    /\ LET f == Top
           filter == simple_text_search_filter(f.source_id, f.course_id)
       IN  \E o \in SearchOutcomes(f.query, filter, f.top_k) :
               /\ calls' = Append(calls, SearchCall("text", f.query, FALSE, filter,
                                                    f.top_k, o))
               /\ Complete(simple_text_search_result(o))
    /\ UNCHANGED <<index, beyond>>

-----------------------------------------------------------------------------
(* hybrid_search *)

\* "top" and k_nearest_neighbors of the hybrid request
HybridPool == 50

\* simple_text_search(query, top_k, source_id, course_id), as hybrid_search calls it
hybrid_search_text_call(f, base) ==
    SearchFrame("simple_text_search", f.query, f.top_k, f.source_id, f.course_id, base)

\* hybrid_search returning the whole candidate pool
hybrid_search_result_unsliced(o, top_k) ==
    IF o.raised THEN Returns(<<>>)
    ELSE IF o.docs = <<>> THEN Returns(<<>>)
    ELSE Returns(o.docs)

\* how hybrid_search ends for the outcome of its request: the except clause
\* returns [], "if not docs" returns [], otherwise docs[:top_k] is returned
hybrid_search_result(o, top_k) ==
    IF o.raised THEN Returns(<<>>)
    ELSE IF o.docs = <<>> THEN Returns(<<>>)
    ELSE Returns(Slice(o.docs, top_k))

\* query_vector = await self.generate_query_embedding(query), and the branch on it
hybrid_search_embed ==
    /\ Running("hybrid_search", "start")
    /\ \E e \in EmbedOutcomes :
           LET f == Top
               query_vector == generate_query_embedding(e)
           IN  /\ calls' = Append(calls, EmbedCall(f.query, e))
               /\ IF query_vector = <<>>
                  THEN Await([f EXCEPT !.pc = "text"],
                             hybrid_search_text_call(f, Len(calls')))
                  ELSE Goto([f EXCEPT !.pc = "query"])
    /\ UNCHANGED <<index, beyond, ret, rets>>

\* return await self.simple_text_search(...)
hybrid_search_text ==
    /\ Running("hybrid_search", "text")
    /\ UNCHANGED <<index, beyond, calls>>
    /\ Return(ret)

\* hybrid_search taking an empty result for a failure: it goes on to the text
\* search
hybrid_search_query_empty_to_text ==
    /\ Running("hybrid_search", "query")
    /\ LET f == Top
           filter == hybrid_search_filter(f.source_id, f.course_id)
       IN  \E o \in SearchOutcomes(f.query, filter, HybridPool) :
               /\ calls' = Append(calls, SearchCall("hybrid", f.query, TRUE, filter,
                                                    HybridPool, o))
               /\ IF ~o.raised /\ o.docs = <<>>
                  THEN /\ Await([f EXCEPT !.pc = "text"],
                                hybrid_search_text_call(f, Len(calls')))
                       /\ UNCHANGED <<ret, rets>>
                  ELSE Complete(hybrid_search_result(o, f.top_k))
    /\ UNCHANGED <<index, beyond>>

\* the hybrid request and what follows it
hybrid_search_query ==
    /\ Running("hybrid_search", "query")
    /\ LET f == Top
           filter == hybrid_search_filter(f.source_id, f.course_id)
       IN  \E o \in SearchOutcomes(f.query, filter, HybridPool) :
               /\ calls' = Append(calls, SearchCall("hybrid", f.query, TRUE, filter,
                                                    HybridPool, o))
               /\ Complete(hybrid_search_result(o, f.top_k))
    /\ UNCHANGED <<index, beyond>>

-----------------------------------------------------------------------------
(* semantic_search *)

\* the fallback call with source_id left out
semantic_search_text_call_unscoped(f, base) ==
    SearchFrame("simple_text_search", f.query, f.top_k, None, f.course_id, base)

\* simple_text_search(query, top_k, source_id, course_id), as semantic_search calls it
semantic_search_text_call(f, base) ==
    SearchFrame("simple_text_search", f.query, f.top_k, f.source_id, f.course_id, base)

\* the except clause falling back to the text search
semantic_search_hybrid_call_to_text(f, base) ==
    SearchFrame("simple_text_search", f.query, f.top_k, f.source_id, f.course_id, base)

\* hybrid_search(query, top_k, source_id, course_id), as the except clause calls it
semantic_search_hybrid_call(f, base) ==
    SearchFrame("hybrid_search", f.query, f.top_k, f.source_id, f.course_id, base)

\* how semantic_search ends when its request did not raise
semantic_search_result(o) ==
    IF o.docs = <<>> THEN Returns(<<>>) ELSE Returns(o.docs)

\* query_vector = await self.generate_query_embedding(query), and the branch on it
semantic_search_embed ==
    /\ Running("semantic_search", "start")
    /\ \E e \in EmbedOutcomes :
           LET f == Top
               query_vector == generate_query_embedding(e)
           IN  /\ calls' = Append(calls, EmbedCall(f.query, e))
               /\ IF query_vector = <<>>
                  THEN Await([f EXCEPT !.pc = "text"],
                             semantic_search_text_call(f, Len(calls')))
                  ELSE Goto([f EXCEPT !.pc = "query"])
    /\ UNCHANGED <<index, beyond, ret, rets>>

\* return await self.simple_text_search(...)
semantic_search_text ==
    /\ Running("semantic_search", "text")
    /\ UNCHANGED <<index, beyond, calls>>
    /\ Return(ret)

\* semantic_search whose except clause returns [] instead of awaiting hybrid_search
semantic_search_query_unrecovered ==
    /\ Running("semantic_search", "query")
    /\ LET f == Top
           filter == semantic_search_filter(f.source_id, f.course_id)
       IN  \E o \in SearchOutcomes(f.query, filter, f.top_k) :
               /\ calls' = Append(calls, SearchCall("semantic", f.query, TRUE, filter,
                                                    f.top_k, o))
               /\ IF o.raised
                  THEN Return(<<>>)
                  ELSE Complete(semantic_search_result(o))
    /\ UNCHANGED <<index, beyond>>

\* the semantic request; when it raises, the except clause awaits hybrid_search
semantic_search_query ==
    /\ Running("semantic_search", "query")
    /\ LET f == Top
           filter == semantic_search_filter(f.source_id, f.course_id)
       IN  \E o \in SearchOutcomes(f.query, filter, f.top_k) :
               /\ calls' = Append(calls, SearchCall("semantic", f.query, TRUE, filter,
                                                    f.top_k, o))
               /\ IF o.raised
                  THEN /\ Await([f EXCEPT !.pc = "hybrid"],
                                semantic_search_hybrid_call(f, Len(calls')))
                       /\ UNCHANGED <<ret, rets>>
                  ELSE Complete(semantic_search_result(o))
    /\ UNCHANGED <<index, beyond>>

\* return await self.hybrid_search(...)
semantic_search_hybrid ==
    /\ Running("semantic_search", "hybrid")
    /\ UNCHANGED <<index, beyond, calls>>
    /\ Return(ret)

-----------------------------------------------------------------------------
(* get_adjacent_chunks *)

\* the test written as all([source_id, course_id, chunk_index])
has_required_fields_truthy(chunk) ==
    /\ Truthy(chunk.source_id)
    /\ Truthy(chunk.course_id)
    /\ "chunk_index" \in DOMAIN chunk
    /\ chunk.chunk_index # 0

\* all([source_id, course_id, chunk_index is not None])
has_required_fields(chunk) ==
    /\ Truthy(chunk.source_id)
    /\ Truthy(chunk.course_id)
    /\ "chunk_index" \in DOMAIN chunk

\* the guard written as chunk_index >= 0
searches_before_inclusive(chunk_index) == chunk_index >= 0

\* the guard of the "before" lookup
searches_before(chunk_index) == chunk_index > 0

AdjacentFrame(chunk, base) ==
    [fn |-> "get_adjacent_chunks", pc |-> "start", chunk |-> chunk,
     adjacent_chunks |-> <<>>, base |-> base]

\* the documents found assigned to adjacent_chunks instead of extending it
after_lookup_replacing(adjacent_chunks, o) ==
    IF o.raised THEN adjacent_chunks ELSE o.docs

\* adjacent_chunks after a lookup: extended by the documents found; a lookup
\* that raised is logged and leaves it as it was
after_lookup(adjacent_chunks, o) ==
    IF o.raised THEN adjacent_chunks ELSE adjacent_chunks \o o.docs

\* the early return for a chunk without the required fields
get_adjacent_chunks_missing ==
    /\ Running("get_adjacent_chunks", "start")
    /\ ~has_required_fields(Top.chunk)
    /\ UNCHANGED <<index, beyond, calls>>
    /\ Return(<<>>)

\* the lookup of chunk_index - 1 under one try with the lookup after it: when
\* it raises, get_adjacent_chunks returns without the lookup of chunk_index + 1
get_adjacent_chunks_before_giving_up ==
    /\ Running("get_adjacent_chunks", "start")
    /\ has_required_fields(Top.chunk)
    /\ searches_before(Top.chunk.chunk_index)
    /\ UNCHANGED <<index, beyond>>
    /\ LET f == Top
           c == f.chunk
           filter == before_filter(c.source_id, c.course_id, c.chunk_index)
       IN  \E o \in SearchOutcomes(<<"*">>, filter, 1) :
               /\ calls' = Append(calls, SearchCall("before", <<"*">>, FALSE, filter, 1, o))
               /\ IF o.raised
                  THEN Return(<<>>)
                  ELSE /\ Goto([f EXCEPT !.pc = "after",
                                         !.adjacent_chunks = after_lookup(@, o)])
                       /\ UNCHANGED <<ret, rets>>

\* the lookup of chunk_index - 1
get_adjacent_chunks_before ==
    /\ Running("get_adjacent_chunks", "start")
    /\ has_required_fields(Top.chunk)
    /\ searches_before(Top.chunk.chunk_index)
    /\ LET f == Top
           c == f.chunk
           filter == before_filter(c.source_id, c.course_id, c.chunk_index)
       IN  \E o \in SearchOutcomes(<<"*">>, filter, 1) :
               /\ calls' = Append(calls, SearchCall("before", <<"*">>, FALSE, filter, 1, o))
               /\ Goto([f EXCEPT !.pc = "after",
                                 !.adjacent_chunks = after_lookup(@, o)])
    /\ UNCHANGED <<index, beyond, ret, rets>>

\* the lookup of chunk_index + 1, and the return
get_adjacent_chunks_after ==
    /\ \/ Running("get_adjacent_chunks", "after")
       \/ /\ Running("get_adjacent_chunks", "start")
          /\ has_required_fields(Top.chunk)
          /\ ~searches_before(Top.chunk.chunk_index)
    /\ LET f == Top
           c == f.chunk
           filter == after_filter(c.source_id, c.course_id, c.chunk_index)
       IN  \E o \in SearchOutcomes(<<"*">>, filter, 1) :
               /\ calls' = Append(calls, SearchCall("after", <<"*">>, FALSE, filter, 1, o))
               /\ Return(after_lookup(f.adjacent_chunks, o))
    /\ UNCHANGED <<index, beyond>>

-----------------------------------------------------------------------------
(* search_best_answers *)

BestAnswersFrame(query, k, source_id, course_id, base) ==
    [fn |-> "search_best_answers", pc |-> "start", query |-> query, top_k |-> k,
     source_id |-> source_id, course_id |-> course_id, base |-> base,
     original_results |-> <<>>, i |-> 0,
     all_chunks |-> <<>>, seen_chunk_ids |-> {}]

\* semantic_search(query, k, source_id, course_id), as search_best_answers calls it
search_best_answers_semantic_call(f, base) ==
    SearchFrame("semantic_search", f.query, f.top_k, f.source_id, f.course_id, base)

\* the chunk appended without looking at seen_chunk_ids
add_chunk_unchecked(f, chunk) ==
    IF chunk.id # ""
    THEN [f EXCEPT !.all_chunks = Append(@, chunk),
                   !.seen_chunk_ids = @ \cup {chunk.id}]
    ELSE f

\* if chunk_id and chunk_id not in seen_chunk_ids: append it and remember its id
add_chunk(f, chunk) ==
    IF chunk.id # "" /\ chunk.id \notin f.seen_chunk_ids
    THEN [f EXCEPT !.all_chunks = Append(@, chunk),
                   !.seen_chunk_ids = @ \cup {chunk.id}]
    ELSE f

\* all_chunks = adjacent_chunks: the chunks found assigned to the result
\* instead of added to it
add_adjacent_assigning(f, adjacent_chunks) ==
    IF adjacent_chunks = <<>> THEN f
    ELSE [f EXCEPT !.all_chunks = adjacent_chunks,
                   !.seen_chunk_ids = @ \cup {adjacent_chunks[n].id :
                                                  n \in 1..Len(adjacent_chunks)}]

\* for adj_chunk in adjacent_chunks: add it
RECURSIVE add_adjacent(_, _)
add_adjacent(f, adjacent_chunks) ==
    IF adjacent_chunks = <<>> THEN f
    ELSE add_adjacent(add_chunk(f, Head(adjacent_chunks)), Tail(adjacent_chunks))

\* Step 1: original_results = await self.semantic_search(query, k, ...)
search_best_answers_search ==
    /\ Running("search_best_answers", "start")
    /\ Await([Top EXCEPT !.pc = "results"],
             search_best_answers_semantic_call(Top, Len(calls)))
    /\ UNCHANGED <<index, beyond, ret, calls, rets>>

\* the loop of Step 2 going through the ranked chunks from the last to the
\* first
next_round_backwards(f) ==
    LET g == [f EXCEPT !.i = @ + 1]
        chunk == g.original_results[Len(g.original_results) + 1 - g.i]
    IN  Await([add_chunk(g, chunk) EXCEPT !.pc = "adjacent"],
              AdjacentFrame(chunk, Len(calls)))

\* one round of the loop of Step 2, up to its await: the i-th ranked chunk is
\* added and its adjacent chunks are asked for
next_round(f) ==
    LET g == [f EXCEPT !.i = @ + 1]
    IN  Await([add_chunk(g, g.original_results[g.i]) EXCEPT !.pc = "adjacent"],
              AdjacentFrame(g.original_results[g.i], Len(calls)))

\* the primary search has returned: nothing found, or the loop starts
search_best_answers_results ==
    /\ Running("search_best_answers", "results")
    /\ UNCHANGED <<index, beyond, calls>>
    /\ IF ret = <<>>
       THEN Return(<<>>)
       ELSE /\ next_round([Top EXCEPT !.original_results = ret])
            /\ UNCHANGED <<ret, rets>>

\* search_best_answers with neighbour lookups whose exception is handled
\* nowhere: a lookup that raised ends the whole call with that exception
search_best_answers_adjacent_failing ==
    /\ Running("search_best_answers", "adjacent")
    /\ UNCHANGED <<index, beyond, calls>>
    /\ LET f == add_adjacent(Top, ret)
       IN  IF \E n \in (Top.base + 1)..Len(calls) :
                  calls[n].svc = "search" /\ calls[n].kind \in {"before", "after"}
                  /\ calls[n].outcome.raised
           THEN Complete(Raises)
           ELSE IF f.i < Len(f.original_results)
           THEN /\ next_round(f)
                /\ UNCHANGED <<ret, rets>>
           ELSE Return(f.all_chunks)

\* get_adjacent_chunks has returned: its chunks are added, then the next round
\* starts or all_chunks is returned
search_best_answers_adjacent ==
    /\ Running("search_best_answers", "adjacent")
    /\ UNCHANGED <<index, beyond, calls>>
    /\ LET f == add_adjacent(Top, ret)
       IN  IF f.i < Len(f.original_results)
           THEN /\ next_round(f)
                /\ UNCHANGED <<ret, rets>>
           ELSE Return(f.all_chunks)

-----------------------------------------------------------------------------
(* The engine's specification: one call of one of its search coroutines *)

SearchCoroutines ==
    {"simple_text_search", "hybrid_search", "semantic_search"}

Init ==
    /\ lists = <<>>
    /\ index = Index
    /\ ret = <<>>
    /\ calls = <<>>
    /\ rets = <<>>
    /\ NothingBeyond
    /\ \E q \in Queries, k \in TopKs, s \in SourceIds, c \in CourseIds :
           \/ \E fn \in SearchCoroutines : stack = <<SearchFrame(fn, q, k, s, c, 0)>>
           \/ stack = <<BestAnswersFrame(q, k, s, c, 0)>>

Next ==
    \/ simple_text_search
    \/ hybrid_search_embed
    \/ hybrid_search_text
    \/ hybrid_search_query
    \/ semantic_search_embed
    \/ semantic_search_text
    \/ semantic_search_query
    \/ semantic_search_hybrid
    \/ get_adjacent_chunks_missing
    \/ get_adjacent_chunks_before
    \/ get_adjacent_chunks_after
    \/ search_best_answers_search
    \/ search_best_answers_results
    \/ search_best_answers_adjacent

Spec == Init /\ [][Next]_vars

\* one call of semantic_search over a course, whose every step that can be
\* taken is taken in the end: every request to the embedding service and to the search backend
\* is answered or raises, and the event loop runs the coroutine on
InitSemantic ==
    /\ lists = <<>>
    /\ index = Index
    /\ ret = <<>>
    /\ calls = <<>>
    /\ rets = <<>>
    /\ NothingBeyond
    /\ \E k \in TopKs :
           stack = <<SearchFrame("semantic_search", <<"q">>, k, None, <<"k">>, 0)>>

NextSemantic ==
    \/ semantic_search_embed
    \/ semantic_search_text
    \/ semantic_search_query
    \/ semantic_search_hybrid
    \/ simple_text_search
    \/ hybrid_search_embed
    \/ hybrid_search_text
    \/ hybrid_search_query

FairnessSemantic ==
    /\ WF_vars(semantic_search_embed)
    /\ WF_vars(semantic_search_text)
    /\ WF_vars(semantic_search_query)
    /\ WF_vars(semantic_search_hybrid)
    /\ WF_vars(simple_text_search)
    /\ WF_vars(hybrid_search_embed)
    /\ WF_vars(hybrid_search_text)
    /\ WF_vars(hybrid_search_query)

SpecSemanticFair == InitSemantic /\ [][NextSemantic]_vars /\ FairnessSemantic

-----------------------------------------------------------------------------
(* The filter construction, over every identifier up to a length: one call    *)
(* of a search coroutine, or of get_adjacent_chunks, on an empty index        *)

\* the symbols identifiers are made of
IdSymbols == {"a", "'", " "}

\* the strings of at most n symbols
RECURSIVE Strings(_)
Strings(n) ==
    IF n = 0 THEN {<<>>}
    ELSE Strings(n - 1)
         \cup {Append(t, x) : t \in {u \in Strings(n - 1) : Len(u) = n - 1}, x \in IdSymbols}

\* an identifier written to end the literal and add a comparison of its own
Injection == <<"a", "'", " ", "and", " ", "course_id", " ", "eq", " ", "'", "b">>

Identifiers == Strings(MaxIdLen) \cup {None, Injection}

\* a chunk whose document carries no chunk_index
Unnumbered(source_id, course_id) ==
    [id |-> "x", source_id |-> source_id, course_id |-> course_id, text |-> <<>>]

InitFilter ==
    /\ lists = <<>>
    /\ index = {}
    /\ ret = <<>>
    /\ calls = <<>>
    /\ rets = <<>>
    /\ NothingBeyond
    /\ \E q \in Queries, s \in Identifiers, c \in Identifiers :
           \/ \E fn \in SearchCoroutines : stack = <<SearchFrame(fn, q, 1, s, c, 0)>>
           \/ \E i \in 0..1 : stack = <<AdjacentFrame(Chunk("x", s, c, i, <<>>), 0)>>
           \/ stack = <<AdjacentFrame(Unnumbered(s, c), 0)>>

NextFilter ==
    \/ simple_text_search
    \/ hybrid_search_embed
    \/ hybrid_search_text
    \/ hybrid_search_query
    \/ semantic_search_embed
    \/ semantic_search_text
    \/ semantic_search_query
    \/ semantic_search_hybrid
    \/ get_adjacent_chunks_missing
    \/ get_adjacent_chunks_before
    \/ get_adjacent_chunks_after

SpecFilter == InitFilter /\ [][NextFilter]_vars

-----------------------------------------------------------------------------
(* RAGSystem (Source/Services/free_chat.py) *)

\* dict.get(key, default)
Get(d, key, default) == IF key \in DOMAIN d THEN d[key] ELSE default

Whitespace == {" ", "\n", "\t"}

RECURSIVE lstrip(_)
lstrip(s) == IF s # <<>> /\ Head(s) \in Whitespace THEN lstrip(Tail(s)) ELSE s

RECURSIVE rstrip(_)
rstrip(s) ==
    IF s # <<>> /\ s[Len(s)] \in Whitespace THEN rstrip(SubSeq(s, 1, Len(s) - 1)) ELSE s

\* the content taken as it came, untrimmed
strip_omitted(s) == s

\* str.strip()
strip(s) == rstrip(lstrip(s))

\* "\n\n".join(parts)
RECURSIVE join_blank_line(_)
join_blank_line(parts) ==
    IF parts = <<>> THEN <<>>
    ELSE IF Len(parts) = 1 THEN parts[1]
    ELSE parts[1] \o <<"\n", "\n">> \o join_blank_line(Tail(parts))

\* datetime.now().isoformat(): the clock is not modelled, every reading is
\* the same symbol
Now == <<"now">>

\* str(e) of the exception a collaborator raised
ExceptionMessage == <<"Connection error.">>

\* what blob_manager.download_to_memory(f"{course_id}/syllabus.md") gives:
\* the bytes of the blob, None, or an exception
BlobOutcomes ==
    {[raised |-> FALSE, bytes |-> <<"s", "y", "l">>],
     [raised |-> FALSE, bytes |-> None],
     [raised |-> TRUE, bytes |-> None]}

\* the syllabus _load_syllabus returns: the decoded bytes, or "" when the blob
\* is missing or the download raised
_load_syllabus(o) == IF ~o.raised /\ Truthy(o.bytes) THEN o.bytes ELSE <<>>

\* the blob download, as logged
BlobCall(course_id, o) ==
    [svc |-> "blob", blob_name |-> course_id \o <<"/syllabus.md">>, outcome |-> o]

\* the parts built under "if text:", a chunk without text giving none
RECURSIVE context_parts_skipping_empty(_, _)
context_parts_skipping_empty(chunks, i) ==
    IF chunks = <<>> THEN <<>>
    ELSE (IF Get(Head(chunks), "text", <<>>) # <<>>
          THEN <<(<<"Source ">> \o nat_str(i) \o <<":", "\n">> \o Get(Head(chunks), "text", <<>>))>>
          ELSE <<>>)
         \o context_parts_skipping_empty(Tail(chunks), i + 1)

\* f"Source {i}:\n{text}" for the i-th chunk and the chunks after it
RECURSIVE context_parts(_, _)
context_parts(chunks, i) ==
    IF chunks = <<>> THEN <<>>
    ELSE <<(<<"Source ">> \o nat_str(i) \o <<":", "\n">> \o Get(Head(chunks), "text", <<>>))>>
         \o context_parts(Tail(chunks), i + 1)

_build_context_from_chunks(chunks) == join_blank_line(context_parts(chunks, 1))

\* the persona of the assistant, and the syllabus appendix around the syllabus
base_prompt == <<"You are an expert Hebrew-speaking tutoring assistant ...">>
syllabus_section(syllabus_content) ==
    <<"\n", "\n", "        COURSE SYLLABUS: ...", "\n", "\n", "        ">>
    \o syllabus_content
    \o <<"\n", "\n", "        Use this syllabus information to: ...">>

\* the system prompt with the appendix around whatever the syllabus is, the
\* empty one too
_get_system_prompt_always_appending(syllabus_content) ==
    base_prompt \o syllabus_section(syllabus_content)

\* the system prompt: the persona, and the appendix "if syllabus_content:"
_get_system_prompt(syllabus_content) ==
    IF Truthy(syllabus_content)
    THEN base_prompt \o syllabus_section(syllabus_content)
    ELSE base_prompt

\* the history messages sent with the role they came with
RECURSIVE history_messages_as_given(_)
history_messages_as_given(conversation_history) ==
    IF conversation_history = <<>> THEN <<>>
    ELSE LET msg == Head(conversation_history)
         IN  <<[role |-> Get(msg, "role", "user"), content |-> Get(msg, "content", <<>>)]>>
             \o history_messages_as_given(Tail(conversation_history))

\* the history messages as they are sent: role and content only, a role other
\* than assistant or user becomes user
RECURSIVE history_messages(_)
history_messages(conversation_history) ==
    IF conversation_history = <<>> THEN <<>>
    ELSE LET msg == Head(conversation_history)
             role == Get(msg, "role", "user")
         IN  <<[role |-> IF role \notin {"assistant", "user"} THEN "user" ELSE role,
                content |-> Get(msg, "content", <<>>)]>>
             \o history_messages(Tail(conversation_history))

\* the indentation of the lines of the f-string of _build_conversation_messages
Indent == "        "

_build_conversation_messages(conversation_history, user_message, context, syllabus_content) ==
    <<[role |-> "system", content |-> _get_system_prompt(syllabus_content)]>>
    \o (IF conversation_history # <<>> THEN history_messages(conversation_history) ELSE <<>>)
    \o <<[role |-> "user",
          content |-> <<"User query: ">> \o user_message
                      \o <<"\n", "\n", Indent, "Relevant context:", "\n", Indent>>
                      \o context]>>

\* one record per chunk with the three optional keys always present, empty
\* when the chunk has no value for them
RECURSIVE sources_from_with_placeholders(_, _)
sources_from_with_placeholders(chunks, i) ==
    IF chunks = <<>> THEN <<>>
    ELSE LET chunk == Head(chunks)
         IN  <<[index |-> i,
                source_id |-> Get(chunk, "source_id", <<>>),
                course_id |-> Get(chunk, "course_id", <<>>),
                chunk_index |-> Get(chunk, "chunk_index", 0),
                relevance_score |-> Get(chunk, "@search.score", 0),
                text_preview |-> Get(chunk, "text", <<>>),
                start_time |-> Get(chunk, "start_time", <<>>),
                end_time |-> Get(chunk, "end_time", <<>>),
                section_title |-> Get(chunk, "section_title", <<>>)]>>
             \o sources_from_with_placeholders(Tail(chunks), i + 1)

\* one record per chunk, numbered from 1
RECURSIVE sources_from(_, _)
sources_from(chunks, i) ==
    IF chunks = <<>> THEN <<>>
    ELSE LET chunk == Head(chunks)
             source_info ==
                 [index |-> i,
                  source_id |-> Get(chunk, "source_id", <<>>),
                  course_id |-> Get(chunk, "course_id", <<>>),
                  chunk_index |-> Get(chunk, "chunk_index", 0),
                  relevance_score |-> Get(chunk, "@search.score", 0),
                  text_preview |-> Get(chunk, "text", <<>>)]
             optional == {k \in {"start_time", "end_time", "section_title"} :
                             Truthy(Get(chunk, k, <<>>))}
         IN  <<[k \in DOMAIN source_info \cup optional |->
                   IF k \in optional THEN chunk[k] ELSE source_info[k]]>>
             \o sources_from(Tail(chunks), i + 1)

_extract_sources_info(chunks) == sources_from(chunks, 1)

\* the answer given when nothing was retrieved (a Hebrew sentence in the code)
NoContentAnswer == <<"Sorry, I found no relevant information ... (Hebrew)">>

\* a frame of generate_answer (conversation_history: the entries of the
\* caller's list at the call; history_ref: that list object)
AnswerFrame(conversation_id, conversation_history, course_id, user_message, stage, source_id, top_k, base) ==
    [fn |-> "generate_answer", pc |-> "start", conversation_id |-> conversation_id,
     conversation_history |-> conversation_history, course_id |-> course_id,
     user_message |-> user_message, stage |-> stage, source_id |-> source_id,
     top_k |-> top_k, base |-> base, syllabus_content |-> <<>>,
     history_ref |-> 1]

\* the envelope returned when nothing was retrieved, with a turn appended to
\* the history
no_content_envelope_with_turn(f) ==
    [conversation_id |-> f.conversation_id,
     conversation_history |->
         Append(f.conversation_history,
                [role |-> "user", content |-> f.user_message, timestamp |-> Now]),
     course_id |-> f.course_id,
     user_message |-> f.user_message,
     stage |-> f.stage,
     final_answer |-> NoContentAnswer,
     sources |-> <<>>,
     timestamp |-> Now,
     success |-> FALSE,
     error |-> <<"No relevant content found in RAG">>]

\* the envelope returned when not search_results
no_content_envelope(f) ==
    [conversation_id |-> f.conversation_id,
     conversation_history |-> f.conversation_history,
     course_id |-> f.course_id,
     user_message |-> f.user_message,
     stage |-> f.stage,
     final_answer |-> NoContentAnswer,
     sources |-> <<>>,
     timestamp |-> Now,
     success |-> FALSE,
     error |-> <<"No relevant content found in RAG">>]

\* the envelope of the except clause echoing a history to which the user turn
\* had already been appended
error_envelope_with_turn(f, e) ==
    [conversation_id |-> f.conversation_id,
     conversation_history |->
         Append(f.conversation_history,
                [role |-> "user", content |-> f.user_message, timestamp |-> Now]),
     course_id |-> f.course_id,
     user_message |-> f.user_message,
     stage |-> f.stage,
     final_answer |-> <<"Error: ">> \o e,
     sources |-> <<>>,
     timestamp |-> Now,
     success |-> FALSE,
     error |-> e]

\* the envelope returned by the except clause for an exception of message e
error_envelope(f, e) ==
    [conversation_id |-> f.conversation_id,
     conversation_history |-> f.conversation_history,
     course_id |-> f.course_id,
     user_message |-> f.user_message,
     stage |-> f.stage,
     final_answer |-> <<"Error: ">> \o e,
     sources |-> <<>>,
     timestamp |-> Now,
     success |-> FALSE,
     error |-> e]

\* updated_conversation_history = conversation_history, without the copy: the
\* two entries are appended to the caller's list
copy_and_append_in_place(ls, ref, exchange) ==
    Append([ls EXCEPT ![ref] = @ \o exchange], ls[ref] \o exchange)

\* updated_conversation_history = conversation_history.copy() if
\* conversation_history else [], then the two appends: a new list object, the
\* last of ls, holds the entries of the caller's list and the exchange
copy_and_append(ls, ref, exchange) ==
    Append(ls, (IF ls[ref] # <<>> THEN ls[ref] ELSE <<>>) \o exchange)

\* the list object created last
newest(ls) == ls[Len(ls)]

\* the two entries a history was extended by
exchange_of(history) == SubSeq(history, Len(history) - 1, Len(history))

\* the history with the new exchange: the user message with its context, then
\* the answer
updated_conversation_history(f, context, final_answer) ==
    (IF f.conversation_history # <<>> THEN f.conversation_history ELSE <<>>)
    \o <<[role |-> "user",
          content |-> <<"User query: ">> \o f.user_message
                      \o <<"\n", "\n", "Relevant context:", "\n">> \o context,
          timestamp |-> Now],
         [role |-> "assistant", content |-> final_answer, timestamp |-> Now]>>

\* the envelope returned after the model answered
success_envelope(f, search_results, context, final_answer) ==
    [conversation_id |-> f.conversation_id,
     conversation_history |-> updated_conversation_history(f, context, final_answer),
     course_id |-> f.course_id,
     user_message |-> f.user_message,
     stage |-> f.stage,
     final_answer |-> final_answer,
     sources |-> _extract_sources_info(search_results),
     timestamp |-> Now,
     success |-> TRUE]

\* str(e) of the AttributeError of None.strip()
NoneHasNoStrip == <<"'NoneType' object has no attribute 'strip'">>

\* what openai_client.chat.completions.create gives: a message content, a
\* message with no content (None), or an exception
CompletionOutcomes ==
    {[raised |-> TRUE, content |-> <<>>],
     [raised |-> FALSE, content |-> None],
     [raised |-> FALSE, content |-> <<"\n", "A", " ", "B", " ">>],
     [raised |-> FALSE, content |-> <<"A">>]}

\* the completion request, as logged
ChatCall(messages, o) == [svc |-> "chat", messages |-> messages, outcome |-> o]

\* Steps 1 and 2: the syllabus is loaded, then semantic_search is awaited
generate_answer_search ==
    /\ Running("generate_answer", "start")
    /\ \E o \in BlobOutcomes :
           /\ calls' = Append(calls, BlobCall(Top.course_id, o))
           /\ Await([Top EXCEPT !.pc = "search_results",
                                !.syllabus_content = _load_syllabus(o)],
                    SearchFrame("semantic_search", Top.user_message, Top.top_k,
                                Top.source_id, Top.course_id, Len(calls')))
    /\ UNCHANGED <<index, beyond, ret, rets>>

\* Steps 3 to 6 without the early return of "if not search_results": the
\* completion is requested over an empty context too
generate_answer_answer_whatever_retrieved ==
    /\ Running("generate_answer", "search_results")
    /\ UNCHANGED <<index, beyond>>
    /\ IF rets[Len(rets)].raised
       THEN /\ UNCHANGED calls
            /\ Return(error_envelope(Top, ExceptionMessage))
       ELSE LET search_results == ret
                context == _build_context_from_chunks(search_results)
                messages == _build_conversation_messages(
                                Top.conversation_history, Top.user_message,
                                context, Top.syllabus_content)
            IN  \E o \in CompletionOutcomes :
                    /\ calls' = Append(calls, ChatCall(messages, o))
                    /\ IF o.raised
                       THEN Return(error_envelope(Top, ExceptionMessage))
                       ELSE IF o.content = None
                       THEN Return(error_envelope(Top, NoneHasNoStrip))
                       ELSE Return(success_envelope(Top, search_results, context,
                                                    strip(o.content)))

\* semantic_search has ended: nothing retrieved, or Steps 3 to 6 (context,
\* messages, completion, sources, history); an exception ends in the except
\* clause
generate_answer_answer ==
    /\ Running("generate_answer", "search_results")
    /\ UNCHANGED <<index, tasks, prompts_dir, _prompts_cache, _cache_loaded, clients>>
    /\ IF rets[Len(rets)].raised
       THEN /\ UNCHANGED <<calls, lists>>
            /\ Return(error_envelope(Top, ExceptionMessage))
       ELSE IF ret = <<>>
       THEN /\ UNCHANGED <<calls, lists>>
            /\ Return(no_content_envelope(Top))
       ELSE LET search_results == ret
                context == _build_context_from_chunks(search_results)
                messages == _build_conversation_messages(
                                Top.conversation_history, Top.user_message,
                                context, Top.syllabus_content)
            IN  \E o \in CompletionOutcomes :
                    /\ calls' = Append(calls, ChatCall(messages, o))
                    /\ IF o.raised
                       THEN /\ UNCHANGED lists
                            /\ Return(error_envelope(Top, ExceptionMessage))
                       ELSE IF o.content = None
                       THEN /\ UNCHANGED lists
                            /\ Return(error_envelope(Top, NoneHasNoStrip))
                       ELSE LET envelope == success_envelope(Top, search_results, context,
                                                             strip(o.content))
                            IN  /\ lists' = copy_and_append(
                                                lists, Top.history_ref,
                                                exchange_of(envelope.conversation_history))
                                /\ Return([envelope EXCEPT
                                               !.conversation_history = newest(lists')])

\* the arguments of generate_answer
ConversationIds == {<<"conv">>}
Stages == {<<"regular_chat">>}
Histories ==
    {<<>>,
     <<[role |-> "user", content |-> <<"h1">>, timestamp |-> <<"then">>]>>,
     <<[role |-> "assistant", content |-> <<"h1">>, timestamp |-> <<"then">>],
       [role |-> "tool", content |-> <<"h2">>]>>,
     <<[role |-> "system", content |-> <<"h3">>], [content |-> <<"h4">>]>>}

InitRAG ==
    /\ index = Index
    /\ ret = <<>>
    /\ calls = <<>>
    /\ rets = <<>>
    /\ NothingBeyond
    /\ \E id \in ConversationIds, h \in Histories, c \in CourseIds \ {None},
          q \in Queries, st \in Stages, s \in SourceIds, k \in TopKs :
           /\ stack = <<AnswerFrame(id, h, c, q, st, s, k, 0)>>
           /\ lists = <<h>>

NextRAG ==
    \/ generate_answer_search
    \/ generate_answer_answer
    \/ semantic_search_embed
    \/ semantic_search_text
    \/ semantic_search_query
    \/ semantic_search_hybrid
    \/ simple_text_search
    \/ hybrid_search_embed
    \/ hybrid_search_text
    \/ hybrid_search_query

SpecRAG == InitRAG /\ [][NextRAG]_vars

\* one call of generate_answer whose every step that can be taken is taken in
\* the end: the event loop runs the coroutine on, and every collaborator
\* request is answered or raises
InitRAGFair ==
    /\ index = Index
    /\ ret = <<>>
    /\ calls = <<>>
    /\ rets = <<>>
    /\ NothingBeyond
    /\ \E h \in {<<>>, <<[role |-> "user", content |-> <<"h1">>, timestamp |-> <<"then">>]>>} :
           /\ stack = <<AnswerFrame(<<"conv">>, h, <<"k">>, <<"q">>, <<"regular_chat">>,
                                    None, MaxTopK, 0)>>
           /\ lists = <<h>>

Fairness ==
    /\ WF_vars(generate_answer_search)
    /\ WF_vars(generate_answer_answer)
    /\ WF_vars(semantic_search_embed)
    /\ WF_vars(semantic_search_text)
    /\ WF_vars(semantic_search_query)
    /\ WF_vars(semantic_search_hybrid)
    /\ WF_vars(simple_text_search)
    /\ WF_vars(hybrid_search_embed)
    /\ WF_vars(hybrid_search_text)
    /\ WF_vars(hybrid_search_query)

SpecRAGFair == InitRAGFair /\ [][NextRAG]_vars /\ Fairness

-----------------------------------------------------------------------------
(* PromptLoader.get_prompt (Source/Services/prompt_loader.py), over the       *)
(* sections of the prompt file as parsed: a function from section names to    *)
(* templates.  A template is a string in which a replacement field {name} is  *)
(* one symbol.                                                                *)

\* the replacement fields a template may hold
Fields == {"{conversation_context}", "{context}", "{query}", "{subject}", "{subject_name}"}

\* the keyword arguments that fill them: a function from fields to strings
NoKwargs == <<>>

\* prompt_text.format(**kwargs), every field of the template being given
RECURSIVE format(_, _)
format(prompt_text, kwargs) ==
    IF prompt_text = <<>> THEN <<>>
    ELSE (IF Head(prompt_text) \in Fields THEN kwargs[Head(prompt_text)]
          ELSE <<Head(prompt_text)>>)
         \o format(Tail(prompt_text), kwargs)

\* str.format raises KeyError for a field that kwargs does not give
raises_KeyError(prompt_text, kwargs) ==
    \E n \in 1..Len(prompt_text) :
        prompt_text[n] \in Fields /\ prompt_text[n] \notin DOMAIN kwargs

\* get_prompt for the sections prompts of the prompt type: "" when the file
\* gave nothing or the section is missing, the template unformatted when a
\* field is not given, else the template formatted
get_prompt(prompts, section, kwargs) ==
    LET prompt_text == Get(prompts, section, <<>>)
    IN  IF prompt_text = <<>> THEN <<>>
        ELSE IF DOMAIN kwargs # {} /\ ~raises_KeyError(prompt_text, kwargs)
        THEN format(prompt_text, kwargs)
        ELSE prompt_text

\* what the prompt file of test_myself may hold: nothing (no file), the two
\* sections, or a user section with a field get_help does not give
PromptFiles ==
    {<<>>,
     [system |-> <<"system prompt">>,
      user |-> <<"{conversation_context}", "\n", "{context}", "\n", "{query}">>],
     [system |-> <<"system prompt">>,
      user |-> <<"{subject}", "{query}">>]}

-----------------------------------------------------------------------------
(* AssistantHelper (Source/Services/test_myself.py) *)

\* top_k of the two modes
lecture_top_k == 5
full_course_top_k == 8

\* result.get('text', '')[:150]
PreviewLength == 150

\* "\n".join(parts)
RECURSIVE join_newline(_)
join_newline(parts) ==
    IF parts = <<>> THEN <<>>
    ELSE IF Len(parts) = 1 THEN parts[1]
    ELSE parts[1] \o <<"\n">> \o join_newline(Tail(parts))

\* f"{source} {i}: {text}" for the i-th result and those after it (the word
\* for source is Hebrew in the code)
RECURSIVE help_context_parts(_, _)
help_context_parts(results, i) ==
    IF results = <<>> THEN <<>>
    ELSE <<(<<"Source(he) ">> \o nat_str(i) \o <<":", " ">> \o Get(Head(results), "text", <<>>))>>
         \o help_context_parts(Tail(results), i + 1)

_build_context(results) == join_blank_line(help_context_parts(results, 1))

\* conversation_history[-5:]
LastFive(conversation_history) ==
    SubSeq(conversation_history,
           IF Len(conversation_history) > 5 THEN Len(conversation_history) - 4 ELSE 1,
           Len(conversation_history))

\* f"{role}: {content}" per message, the role being student for user and
\* teacher otherwise (Hebrew words in the code)
RECURSIVE conversation_lines(_)
conversation_lines(msgs) ==
    IF msgs = <<>> THEN <<>>
    ELSE <<((IF Get(Head(msgs), "role", "") = "user" THEN <<"Student(he)">> ELSE <<"Teacher(he)">>)
            \o <<":", " ">> \o Get(Head(msgs), "content", <<>>))>>
         \o conversation_lines(Tail(msgs))

_build_conversation_context(conversation_history) ==
    IF conversation_history = <<>> THEN <<"This is the start of the conversation. (he)">>
    ELSE join_newline(<<(<<"Context of the previous conversation: (he)">>)>>
                      \o conversation_lines(LastFive(conversation_history)))

\* the source records of get_help, numbered from 1, the preview cut at 150
RECURSIVE help_sources_from(_, _)
help_sources_from(results, i) ==
    IF results = <<>> THEN <<>>
    ELSE LET result == Head(results)
         IN  <<[index |-> i,
                source_id |-> Get(result, "source_id", <<>>),
                content_type |-> Get(result, "content_type", <<>>),
                score |-> Get(result, "@search.score", 0),
                preview |-> Slice(Get(result, "text", <<>>), PreviewLength)
                            \o <<".", ".", ".">>]>>
             \o help_sources_from(Tail(results), i + 1)

\* a frame of get_help (conversation_history: the entries of the caller's
\* list at the call; history_ref: that list object)
HelpFrame(conversation_id, conversation_history, mode, identifier, query, base) ==
    [fn |-> "get_help", pc |-> "start", conversation_id |-> conversation_id,
     conversation_history |-> conversation_history, mode |-> mode,
     identifier |-> identifier, query |-> query, base |-> base,
     history_ref |-> 1]

\* the envelope returned for a mode that is neither lecture nor full_course
invalid_mode_envelope(f) ==
    [conversation_id |-> f.conversation_id,
     mode |-> f.mode,
     identifier |-> f.identifier,
     query |-> f.query,
     response |-> <<"Invalid mode (he): ">> \o f.mode \o <<". Use 'lecture' or 'full_course' (he)">>,
     sources |-> <<>>,
     success |-> FALSE,
     timestamp |-> Now]

\* the envelope returned when not results, without its sources field
help_no_content_envelope_without_sources(f) ==
    [conversation_id |-> f.conversation_id,
     mode |-> f.mode,
     identifier |-> f.identifier,
     query |-> f.query,
     response |-> <<"No relevant content was found for your question (he)">>,
     success |-> FALSE,
     timestamp |-> Now]

\* the envelope returned when not results
help_no_content_envelope(f) ==
    [conversation_id |-> f.conversation_id,
     mode |-> f.mode,
     identifier |-> f.identifier,
     query |-> f.query,
     response |-> <<"No relevant content was found for your question (he)">>,
     sources |-> <<>>,
     success |-> FALSE,
     timestamp |-> Now]

\* the envelope returned by the except clause for an exception of message e
help_error_envelope(f, e) ==
    [conversation_id |-> f.conversation_id,
     mode |-> f.mode,
     identifier |-> f.identifier,
     query |-> f.query,
     response |-> <<"Error (he): ">> \o e,
     sources |-> <<>>,
     success |-> FALSE,
     error |-> e,
     timestamp |-> Now]

\* the envelope whose user entry is the query with the retrieval context
help_success_envelope_with_context(f, results, ai_response) ==
    [conversation_id |-> f.conversation_id,
     conversation_history |->
         (IF f.conversation_history # <<>> THEN f.conversation_history ELSE <<>>)
         \o <<[role |-> "user",
               content |-> f.query \o <<"\n">> \o _build_context(results),
               timestamp |-> Now],
              [role |-> "assistant", content |-> ai_response, timestamp |-> Now]>>,
     mode |-> f.mode,
     identifier |-> f.identifier,
     query |-> f.query,
     response |-> ai_response,
     sources |-> help_sources_from(results, 1),
     success |-> TRUE,
     timestamp |-> Now]

\* the envelope returned after the model answered
help_success_envelope(f, results, ai_response) ==
    [conversation_id |-> f.conversation_id,
     conversation_history |->
         (IF f.conversation_history # <<>> THEN f.conversation_history ELSE <<>>)
         \o <<[role |-> "user", content |-> f.query, timestamp |-> Now],
              [role |-> "assistant", content |-> ai_response, timestamp |-> Now]>>,
     mode |-> f.mode,
     identifier |-> f.identifier,
     query |-> f.query,
     response |-> ai_response,
     sources |-> help_sources_from(results, 1),
     success |-> TRUE,
     timestamp |-> Now]

\* semantic_search(query, top_k=5, source_id=identifier), the call of mode lecture
lecture_search(f, base) ==
    SearchFrame("semantic_search", f.query, lecture_top_k, f.identifier, None, base)

\* the call of mode full_course giving the identifier as source_id
full_course_search_by_source(f, base) ==
    SearchFrame("semantic_search", f.query, full_course_top_k, f.identifier, None, base)

\* semantic_search(query, top_k=8, course_id=identifier), the call of mode full_course
full_course_search(f, base) ==
    SearchFrame("semantic_search", f.query, full_course_top_k, None, f.identifier, base)

\* the two get_prompt requests, as logged
PromptCall(section, prompt) == [svc |-> "prompt", section |-> section, prompt |-> prompt]

\* the keyword arguments of the user prompt
user_prompt_kwargs(conversation_context, context, query) ==
    [k \in {"{conversation_context}", "{context}", "{query}"} |->
        IF k = "{conversation_context}" THEN conversation_context
        ELSE IF k = "{context}" THEN context ELSE query]

\* the branch on mode: semantic_search is awaited, or the mode is refused
get_help_search ==
    /\ Running("get_help", "start")
    /\ UNCHANGED <<index, beyond, calls>>
    /\ IF Top.mode = <<"lecture">>
       THEN /\ Await([Top EXCEPT !.pc = "results"], lecture_search(Top, Len(calls)))
            /\ UNCHANGED <<ret, rets>>
       ELSE IF Top.mode = <<"full_course">>
       THEN /\ Await([Top EXCEPT !.pc = "results"], full_course_search(Top, Len(calls)))
            /\ UNCHANGED <<ret, rets>>
       ELSE Return(invalid_mode_envelope(Top))

\* semantic_search has ended: nothing found, or context, prompts, completion,
\* sources and history; an exception ends in the except clause
get_help_answer ==
    /\ Running("get_help", "results")
    /\ UNCHANGED <<index, tasks, prompts_dir, _prompts_cache, _cache_loaded, clients>>
    /\ IF rets[Len(rets)].raised
       THEN /\ UNCHANGED <<calls, lists>>
            /\ Return(help_error_envelope(Top, ExceptionMessage))
       ELSE IF ret = <<>>
       THEN /\ UNCHANGED <<calls, lists>>
            /\ Return(help_no_content_envelope(Top))
       ELSE LET results == ret
                context == _build_context(results)
                conversation_context == _build_conversation_context(Top.conversation_history)
            IN  \E prompts \in PromptFiles, o \in CompletionOutcomes :
                    LET system_prompt == get_prompt(prompts, "system", NoKwargs)
                        user_prompt == get_prompt(prompts, "user",
                                           user_prompt_kwargs(conversation_context,
                                                              context, Top.query))
                        messages == <<[role |-> "system", content |-> system_prompt],
                                      [role |-> "user", content |-> user_prompt]>>
                    IN  /\ calls' = calls \o <<PromptCall("system", system_prompt),
                                               PromptCall("user", user_prompt),
                                               ChatCall(messages, o)>>
                        /\ IF o.raised
                           THEN /\ UNCHANGED lists
                                /\ Return(help_error_envelope(Top, ExceptionMessage))
                           ELSE IF o.content = None
                           THEN /\ UNCHANGED lists
                                /\ Return(help_error_envelope(Top, NoneHasNoStrip))
                           ELSE LET envelope == help_success_envelope(Top, results,
                                                                      strip(o.content))
                                IN  /\ lists' = copy_and_append(
                                                    lists, Top.history_ref,
                                                    exchange_of(envelope.conversation_history))
                                    /\ Return([envelope EXCEPT
                                                   !.conversation_history = newest(lists')])

-----------------------------------------------------------------------------
(* The HTTP handlers (main.py) *)

\* top_k of generate_answer when the caller gives none
default_top_k == 5

\* HTTPException(status_code, detail), the response of a refused request
HTTPException(status_code, detail) == [status_code |-> status_code, detail |-> detail]

\* a frame of a handler for the request body
HandlerFrame(fn, request, base) == [fn |-> fn, pc |-> "start", request |-> request, base |-> base]

\* the detail of the first check of free_chat_endpoint the request fails, "" if none
free_chat_refusal(request) ==
    IF ~Truthy(request.conversation_id) THEN <<"conversation_id is required">>
    ELSE IF ~Truthy(request.course_id) THEN <<"course_id is required">>
    ELSE IF ~Truthy(request.user_message) THEN <<"user_message is required">>
    ELSE IF ~Truthy(request.stage) THEN <<"stage is required">>
    ELSE <<>>

\* FreeChatResponse(...) built from the result of generate_answer
FreeChatResponse(result) ==
    [status_code |-> 200,
     body |-> [conversation_id |-> result.conversation_id,
               conversation_history |-> result.conversation_history,
               course_id |-> result.course_id,
               user_message |-> result.user_message,
               stage |-> result.stage,
               final_answer |-> result.final_answer,
               sources |-> result.sources,
               timestamp |-> result.timestamp,
               success |-> result.success]]

\* the request is validated, then generate_answer is awaited
free_chat_endpoint_request ==
    /\ Running("free_chat_endpoint", "start")
    /\ UNCHANGED <<index, beyond, calls>>
    /\ LET request == Top.request
       IN  IF free_chat_refusal(request) # <<>>
           THEN Return(HTTPException(400, free_chat_refusal(request)))
           ELSE /\ Await([Top EXCEPT !.pc = "result"],
                         AnswerFrame(request.conversation_id, request.conversation_history,
                                     request.course_id, request.user_message,
                                     request.stage, request.source_id, default_top_k,
                                     Len(calls)))
                /\ UNCHANGED <<ret, rets>>

\* generate_answer has ended: its result becomes the response
free_chat_endpoint_response ==
    /\ Running("free_chat_endpoint", "result")
    /\ UNCHANGED <<index, beyond, calls>>
    /\ IF rets[Len(rets)].raised
       THEN Return(HTTPException(500, <<"Free chat failed: ">> \o ExceptionMessage))
       ELSE Return(FreeChatResponse(ret))

\* the checks of test_myself_endpoint without the check of the mode
test_myself_refusal_any_mode(request) ==
    IF ~Truthy(request.conversation_id) THEN <<"conversation_id is required">>
    ELSE IF ~Truthy(request.mode) THEN <<"mode is required">>
    ELSE IF ~Truthy(request.identifier) THEN <<"identifier is required">>
    ELSE IF ~Truthy(request.query) THEN <<"query is required">>
    ELSE <<>>

\* the detail of the first check of test_myself_endpoint the request fails, "" if none
test_myself_refusal(request) ==
    IF ~Truthy(request.conversation_id) THEN <<"conversation_id is required">>
    ELSE IF ~Truthy(request.mode) THEN <<"mode is required">>
    ELSE IF ~Truthy(request.identifier) THEN <<"identifier is required">>
    ELSE IF ~Truthy(request.query) THEN <<"query is required">>
    ELSE IF request.mode \notin {<<"lecture">>, <<"full_course">>}
    THEN <<"mode must be 'lecture' or 'full_course'">>
    ELSE <<>>

\* AssistantResponse(...) built from the result of get_help
AssistantResponse(result) ==
    [status_code |-> 200,
     body |-> [conversation_id |-> result.conversation_id,
               mode |-> result.mode,
               identifier |-> result.identifier,
               query |-> result.query,
               response |-> result.response,
               sources |-> result.sources,
               success |-> result.success,
               timestamp |-> result.timestamp]]

\* the request is validated, then get_help is awaited
test_myself_endpoint_request ==
    /\ Running("test_myself_endpoint", "start")
    /\ UNCHANGED <<index, beyond, calls>>
    /\ LET request == Top.request
       IN  IF test_myself_refusal(request) # <<>>
           THEN Return(HTTPException(400, test_myself_refusal(request)))
           ELSE /\ Await([Top EXCEPT !.pc = "result"],
                         HelpFrame(request.conversation_id, request.conversation_history,
                                   request.mode, request.identifier, request.query,
                                   Len(calls)))
                /\ UNCHANGED <<ret, rets>>

\* get_help has ended: its result becomes the response
test_myself_endpoint_response ==
    /\ Running("test_myself_endpoint", "result")
    /\ UNCHANGED <<index, beyond, calls>>
    /\ IF rets[Len(rets)].raised
       THEN Return(HTTPException(500, <<"Assistant help failed: ">> \o ExceptionMessage))
       ELSE Return(AssistantResponse(ret))

\* the request bodies: a str field may be empty
RequestHistories ==
    {<<>>,
     <<[role |-> "user", content |-> <<"h1">>, timestamp |-> <<"then">>],
       [role |-> "assistant", content |-> <<"h2">>, timestamp |-> <<"then">>]>>}
Modes == {<<>>, <<"lecture">>, <<"full_course">>, <<"quiz">>}
HelpIdentifiers == {<<>>, <<"a", "'">>, <<"k">>}

FreeChatRequests ==
    [conversation_id : {<<>>, <<"conv">>}, conversation_history : RequestHistories,
     course_id : {<<>>, <<"k">>}, user_message : {<<>>, <<"q">>},
     stage : {<<>>, <<"regular_chat">>}, source_id : {None, <<"a", "'">>}]

AssistantRequests ==
    [conversation_id : {<<>>, <<"conv">>}, conversation_history : RequestHistories,
     mode : Modes, identifier : HelpIdentifiers, query : {<<>>, <<"q">>}]

\* one request to a handler, or one call of get_help
InitAPI ==
    /\ index = Index
    /\ ret = <<>>
    /\ calls = <<>>
    /\ rets = <<>>
    /\ NothingBeyond
    /\ \/ \E request \in FreeChatRequests :
              /\ stack = <<HandlerFrame("free_chat_endpoint", request, 0)>>
              /\ lists = <<request.conversation_history>>
       \/ \E request \in AssistantRequests :
              /\ stack = <<HandlerFrame("test_myself_endpoint", request, 0)>>
              /\ lists = <<request.conversation_history>>
       \/ \E h \in RequestHistories, mode \in Modes, id \in HelpIdentifiers :
              /\ stack = <<HelpFrame(<<"conv">>, h, mode, id, <<"q">>, 0)>>
              /\ lists = <<h>>

NextAPI ==
    \/ free_chat_endpoint_request
    \/ free_chat_endpoint_response
    \/ test_myself_endpoint_request
    \/ test_myself_endpoint_response
    \/ get_help_search
    \/ get_help_answer
    \/ generate_answer_search
    \/ generate_answer_answer
    \/ semantic_search_embed
    \/ semantic_search_text
    \/ semantic_search_query
    \/ semantic_search_hybrid
    \/ simple_text_search
    \/ hybrid_search_embed
    \/ hybrid_search_text
    \/ hybrid_search_query

SpecAPI == InitAPI /\ [][NextAPI]_vars

-----------------------------------------------------------------------------
(* _build_context_from_chunks on its own: one call on a list of chunks *)

\* a chunk that has no text key
Textless == [id |-> "x9", source_id |-> <<"b">>, course_id |-> <<"k">>, chunk_index |-> 9]

\* the lists of at most n chunks, a chunk possibly more than once
RECURSIVE ChunkLists(_)
ChunkLists(n) ==
    IF n = 0 THEN {<<>>}
    ELSE ChunkLists(n - 1)
         \cup {Append(l, c) : l \in {u \in ChunkLists(n - 1) : Len(u) = n - 1},
                              c \in Index \cup {Textless}}

\* context = self._build_context_from_chunks(chunks)
build_context_call ==
    /\ Running("_build_context_from_chunks", "start")
    /\ UNCHANGED <<index, beyond, calls>>
    /\ Return(_build_context_from_chunks(Top.chunks))

InitContext ==
    /\ lists = <<>>
    /\ index = Index
    /\ ret = <<>>
    /\ calls = <<>>
    /\ rets = <<>>
    /\ NothingBeyond
    /\ \E chunks \in ChunkLists(MaxChunks) :
           stack = <<[fn |-> "_build_context_from_chunks", pc |-> "start",
                      chunks |-> chunks, base |-> 0]>>

SpecContext == InitContext /\ [][build_context_call]_vars

-----------------------------------------------------------------------------
(* The expansion of search_best_answers over one lecture: the behaviours      *)
(* start where the primary search has just returned its ranked chunks.        *)

\* the chunk with index i of the lecture
LectureChunk(i) == Chunk("c" \o ToString(i), <<"b">>, <<"k">>, i, <<"t">>)

\* a chunk of the lecture indexed without its course
Courseless == Chunk("m7", <<"b">>, None, 7, <<"t">>)

\* the lecture as indexed: whole around the ranked chunks, or with gaps
LectureIndexes ==
    {{LectureChunk(i) : i \in {3, 4, 5, 6, 8, 9, 10}} \cup {Courseless},
     {LectureChunk(i) : i \in {4, 5, 9, 10}} \cup {Courseless}}

\* what the primary search returned
PrimaryResults ==
    {<<LectureChunk(4), LectureChunk(5), LectureChunk(9)>>,
     <<LectureChunk(9), LectureChunk(5), LectureChunk(4)>>,
     <<LectureChunk(4), Courseless>>,
     <<LectureChunk(9)>>,
     <<>>}

InitExpansion ==
    /\ lists = <<>>
    /\ index \in LectureIndexes
    /\ ret \in PrimaryResults
    /\ calls = <<>>
    /\ rets = <<>>
    /\ NothingBeyond
    /\ stack = <<[BestAnswersFrame(<<"q">>, 3, <<"b">>, None, 0) EXCEPT !.pc = "results"]>>

NextExpansion ==
    \/ search_best_answers_results
    \/ search_best_answers_adjacent
    \/ get_adjacent_chunks_missing
    \/ get_adjacent_chunks_before
    \/ get_adjacent_chunks_after

SpecExpansion == InitExpansion /\ [][NextExpansion]_vars

-----------------------------------------------------------------------------
(* The PromptLoader as an object (Source/Services/prompt_loader.py): its      *)
(* cache, the files of its directory, and the calls of get_prompt one after   *)
(* the other.  A prompt type, a file name and a section name are strings; a   *)
(* keyword argument is named by the replacement field it fills.               *)

\* how many calls of get_prompt a behaviour makes
MaxReads == 2

\* str.lower() of the section names asked for
lower(section) ==
    CASE section = "System" -> "system"
      [] section = "USER" -> "user"
      [] OTHER -> section

\* the Hebrew subject types of get_prompt and the endings of the section names
\* built from them
Mathematical == <<"mathematical (Hebrew)">>
Humanities == <<"humanities (Hebrew)">>
MathematicalWithName == " - mathematical with subject name (Hebrew)"
HumanitiesWithName == " - humanities with subject name (Hebrew)"
MathematicalGeneral == " - mathematical general (Hebrew)"
HumanitiesGeneral == " - humanities general (Hebrew)"

\* section_key of get_prompt, for a subject_type that is a string or absent
section_key(section, kwargs) ==
    IF "{subject_type}" \in DOMAIN kwargs
    THEN LET subject_type == kwargs["{subject_type}"]
             subject_name == Get(kwargs, "{subject_name}", <<>>)
         IN  IF subject_type = Mathematical /\ Truthy(subject_name)
             THEN lower(section) \o MathematicalWithName
             ELSE IF subject_type = Humanities /\ Truthy(subject_name)
             THEN lower(section) \o HumanitiesWithName
             ELSE IF subject_type = Mathematical
             THEN lower(section) \o MathematicalGeneral
             ELSE IF subject_type = Humanities
             THEN lower(section) \o HumanitiesGeneral
             ELSE lower(section)
    ELSE lower(section)

\* the file of each prompt type, for get_prompt and for preload_all_prompts
prompt_files == ("free_chat" :> "free_chat_prompt") @@ ("test_myself" :> "test_myself_prompt")
preload_prompt_files == ("free_chat" :> "free_chat_prompt") @@ ("test_myself" :> "quiz_myself_prompt")

\* _load_prompt_file: the sections of the file, {} for a file that is missing,
\* unreadable or without a section
_load_prompt_file(filename) == Get(prompts_dir, filename, <<>>)

\* the cache after the prompt type has been loaded as prompts
cached(cache, prompt_type, prompts) == (prompt_type :> prompts) @@ cache

\* the cache after preload_all_prompts: each prompt type whose file gave
\* sections is cached
preloaded(cache) ==
    LET one(c, prompt_type) ==
            LET prompts == _load_prompt_file(preload_prompt_files[prompt_type])
            IN  IF prompts # <<>> THEN cached(c, prompt_type, prompts) ELSE c
    IN  one(one(cache, "free_chat"), "test_myself")

\* how a call of get_prompt ends, and the cache it leaves
PromptLoader_get_prompt(cache, prompt_type, section, reload, kwargs) ==
    IF "{subject_type}" \in DOMAIN kwargs /\ kwargs["{subject_type}"] = None
    THEN \* None has no lower(): AttributeError, outside every try
         [raised |-> TRUE, value |-> <<>>, cache |-> cache]
    ELSE IF prompt_type \notin DOMAIN prompt_files
    THEN [raised |-> FALSE, value |-> <<>>, cache |-> cache]
    ELSE LET loads == reload \/ prompt_type \notin DOMAIN cache
             loaded == _load_prompt_file(prompt_files[prompt_type])
         IN  IF loads /\ loaded = <<>>
             THEN [raised |-> FALSE, value |-> <<>>, cache |-> cache]
             ELSE LET after == IF loads THEN cached(cache, prompt_type, loaded) ELSE cache
                      prompts == after[prompt_type]
                      key == section_key(section, kwargs)
                      found == IF Get(prompts, key, <<>>) = <<>> /\ key # lower(section)
                               THEN lower(section) ELSE key
                  IN  [raised |-> FALSE, value |-> get_prompt(prompts, found, kwargs),
                       cache |-> after]

\* a call of get_prompt, as recorded
PromptFrame(prompt_type, section, reload, kwargs) ==
    [fn |-> "get_prompt", prompt_type |-> prompt_type, section |-> section,
     reload |-> reload, kwargs |-> kwargs, cache |-> _prompts_cache,
     loaded |-> _cache_loaded, base |-> Len(calls)]

\* the calls made: prompt type, section, reload, keyword arguments
FullKwargs ==
    ("{conversation_context}" :> <<"c">>) @@ ("{context}" :> <<"x">>) @@ ("{query}" :> <<"q">>)
PromptRequests ==
    {<<"free_chat", "system", FALSE, NoKwargs>>,
     <<"free_chat", "System", FALSE, NoKwargs>>,
     <<"free_chat", "system", TRUE, NoKwargs>>,
     <<"free_chat", "missing", FALSE, NoKwargs>>,
     <<"free_chat", "system", FALSE,
       ("{subject_type}" :> Mathematical) @@ ("{subject_name}" :> <<"algebra">>)>>,
     <<"free_chat", "system", FALSE, ("{subject_type}" :> Humanities)>>,
     <<"free_chat", "system", FALSE, ("{subject_type}" :> None)>>,
     <<"test_myself", "system", FALSE, NoKwargs>>,
     <<"test_myself", "USER", FALSE, FullKwargs>>,
     <<"test_myself", "user", FALSE, ("{query}" :> <<"q">>)>>,
     <<"test_myself", "user", TRUE, FullKwargs>>,
     <<"subject_detection", "system", FALSE, NoKwargs>>}

get_prompt_call ==
    /\ Len(rets) < MaxReads
    /\ \E a \in PromptRequests :
           LET c == PromptLoader_get_prompt(_prompts_cache, a[1], a[2], a[3], a[4])
           IN  /\ _prompts_cache' = c.cache
               /\ ret' = c.value
               /\ rets' = Append(rets, [frame |-> PromptFrame(a[1], a[2], a[3], a[4]),
                                        raised |-> c.raised, value |-> c.value,
                                        end |-> Len(calls)])
    /\ UNCHANGED <<index, lists, stack, calls, tasks, prompts_dir, _cache_loaded, clients>>

\* initialize_prompt_loader: a new PromptLoader, its cache preloaded
initialize_prompt_loader ==
    /\ ~_cache_loaded
    /\ rets = <<>>
    /\ _prompts_cache' = preloaded(<<>>)
    /\ _cache_loaded' = TRUE
    /\ UNCHANGED <<index, lists, stack, ret, calls, rets, tasks, prompts_dir, clients>>

\* the prompt directories: every file present; the file preload_all_prompts
\* reads for test_myself absent; no file; a free_chat file without a section
FreeChatSections ==
    ("system" :> <<"free chat system prompt">>)
    @@ ("system" \o MathematicalWithName :> <<"mathematical system prompt for ", "{subject_name}">>)
TestMyselfSections ==
    [system |-> <<"system prompt">>,
     user |-> <<"{conversation_context}", "\n", "{context}", "\n", "{query}">>]
QuizMyselfSections == [system |-> <<"quiz system prompt">>, user |-> <<"{query}">>]
PromptDirs ==
    {("free_chat_prompt" :> FreeChatSections) @@ ("test_myself_prompt" :> TestMyselfSections)
        @@ ("quiz_myself_prompt" :> QuizMyselfSections),
     ("free_chat_prompt" :> FreeChatSections) @@ ("test_myself_prompt" :> TestMyselfSections),
     <<>>,
     ("free_chat_prompt" :> <<>>) @@ ("quiz_myself_prompt" :> QuizMyselfSections)}

InitPrompt ==
    /\ lists = <<>>
    /\ index = {}
    /\ stack = <<>>
    /\ ret = <<>>
    /\ calls = <<>>
    /\ rets = <<>>
    /\ tasks = <<>>
    /\ prompts_dir \in PromptDirs
    /\ _prompts_cache = <<>>
    /\ _cache_loaded = FALSE
    /\ clients = Clients

NextPrompt ==
    \/ initialize_prompt_loader
    \/ get_prompt_call

SpecPrompt == InitPrompt /\ [][NextPrompt]_vars

-----------------------------------------------------------------------------
(* Two requests on one RAGSystem, run by one event loop.  What a request      *)
(* holds (its frames with their local variables, the value it was resumed     *)
(* with, and the history of its own requests and returns) is its own; the     *)
(* index, the prompt loader and the clients are the instance's.  The running  *)
(* request is in stack, ret, calls and rets; the others wait in tasks.        *)

\* a request as it waits
Suspended(s, r, c, rs) == [stack |-> s, ret |-> r, calls |-> c, rets |-> rs]

\* the running request is at an await, where the event loop may resume
\* another: the syllabus download, an embedding request, the completion
\* request; or it has ended
AtAwait ==
    \/ stack = <<>>
    \/ Running("generate_answer", "start")
    \/ Running("generate_answer", "search_results")
    \/ Running("semantic_search", "start")
    \/ Running("hybrid_search", "start")

\* a switch that leaves ret behind when it suspends a request that has not
\* ended: the request resumed finds the chunks the other one was resumed with
event_loop_switch_leaving_ret ==
    /\ AtAwait
    /\ \E i \in 1..Len(tasks) :
           /\ tasks[i].stack # <<>>
           /\ stack' = tasks[i].stack
           /\ ret' = IF stack # <<>> THEN ret ELSE tasks[i].ret
           /\ calls' = tasks[i].calls
           /\ rets' = tasks[i].rets
           /\ tasks' = [tasks EXCEPT ![i] = Suspended(stack, ret, calls, rets)]
    /\ UNCHANGED <<index, lists, prompts_dir, _prompts_cache, _cache_loaded, clients>>

\* the event loop suspends the running request at its await and resumes
\* another one that has not ended
event_loop_switch ==
    /\ AtAwait
    /\ \E i \in 1..Len(tasks) :
           /\ tasks[i].stack # <<>>
           /\ stack' = tasks[i].stack
           /\ ret' = tasks[i].ret
           /\ calls' = tasks[i].calls
           /\ rets' = tasks[i].rets
           /\ tasks' = [tasks EXCEPT ![i] = Suspended(stack, ret, calls, rets)]
    /\ UNCHANGED <<index, lists, prompts_dir, _prompts_cache, _cache_loaded, clients>>

\* the two requests: a generate_answer over the lecture b with a history, and
\* a generate_answer over the lecture a with another history or a
\* search_best_answers over the lecture a
FirstRequest ==
    AnswerFrame(<<"c1">>, <<[role |-> "user", content |-> <<"h1">>, timestamp |-> <<"then">>]>>,
                <<"k">>, <<"q">>, <<"regular_chat">>, <<"b">>, 1, 0)
SecondRequests ==
    {[AnswerFrame(<<"c2">>, <<[role |-> "assistant", content |-> <<"h2">>]>>,
                  <<"k">>, <<"q">>, <<"quiz_mode">>, <<"a", "'">>, 1, 0)
         EXCEPT !.history_ref = 2],
     BestAnswersFrame(<<"q">>, 1, <<"a", "'">>, <<"k">>, 0)}

InitConcurrent ==
    /\ index = Index
    /\ stack = <<FirstRequest>>
    /\ ret = <<>>
    /\ calls = <<>>
    /\ rets = <<>>
    /\ \E f \in SecondRequests :
           /\ tasks = <<Suspended(<<f>>, <<>>, <<>>, <<>>)>>
           /\ lists = <<FirstRequest.conversation_history>>
                      \o (IF f.fn = "generate_answer"
                          THEN <<f.conversation_history>> ELSE <<>>)
    /\ prompts_dir = <<>>
    /\ _prompts_cache = <<>>
    /\ _cache_loaded = FALSE
    /\ clients = Clients

NextConcurrent ==
    \/ event_loop_switch
    \/ generate_answer_search
    \/ generate_answer_answer
    \/ semantic_search_embed
    \/ semantic_search_text
    \/ semantic_search_query
    \/ semantic_search_hybrid
    \/ simple_text_search
    \/ hybrid_search_embed
    \/ hybrid_search_text
    \/ hybrid_search_query
    \/ search_best_answers_search
    \/ search_best_answers_results
    \/ search_best_answers_adjacent
    \/ get_adjacent_chunks_before
    \/ get_adjacent_chunks_after

SpecConcurrent == InitConcurrent /\ [][NextConcurrent]_vars

-----------------------------------------------------------------------------
(* Teardown: RAGSystem.close (Source/Services/free_chat.py) and the shutdown  *)
(* half of lifespan (main.py), after a call of generate_answer has ended.     *)
(* Each closes its clients one after the other inside one try.                *)

\* the clients RAGSystem.close closes, in its order
close_order == <<"openai_client", "search_system.openai_client", "blob_manager._async_client">>

\* the clients the shutdown of lifespan closes, in its order
shutdown_order ==
    <<"openai_client", "search_system.openai_client", "search_system.search_client",
      "blob_manager._async_client", "assistant_helper.openai_client">>

\* a request to close a client, as logged
CloseCall(client, raised) == [svc |-> "close", client |-> client, outcome |-> [raised |-> raised]]

\* the requests made when the n-th close of order raises (n = 0: none raises):
\* the except clause ends the try, no later client is closed
close_calls(order, n) ==
    [i \in 1..(IF n = 0 THEN Len(order) ELSE n) |-> CloseCall(order[i], i = n)]

\* the clients those requests released
closed_by(order, n) ==
    {order[i] : i \in 1..(IF n = 0 THEN Len(order) ELSE n - 1)}

\* no teardown has run yet and no request is in progress
Serving ==
    /\ stack = <<>>
    /\ rets # <<>>
    /\ \A n \in 1..Len(rets) : rets[n].frame.fn \notin {"close", "lifespan"}

\* a teardown that closes the clients of order: it returns None, whatever
\* raised is logged
teardown(fn, order) ==
    /\ Serving
    /\ \E n \in 0..Len(order) :
           /\ clients' = clients \ closed_by(order, n)
           /\ calls' = calls \o close_calls(order, n)
           /\ ret' = None
           /\ rets' = Append(rets, [frame |-> [fn |-> fn, base |-> Len(calls)],
                                    raised |-> FALSE, value |-> None,
                                    end |-> Len(calls')])
    /\ UNCHANGED <<index, lists, stack, tasks, prompts_dir, _prompts_cache, _cache_loaded>>

RAGSystem_close == teardown("close", close_order)

lifespan_shutdown == teardown("lifespan", shutdown_order)

NextTeardown ==
    \/ generate_answer_search
    \/ generate_answer_answer
    \/ semantic_search_embed
    \/ semantic_search_text
    \/ semantic_search_query
    \/ semantic_search_hybrid
    \/ simple_text_search
    \/ hybrid_search_embed
    \/ hybrid_search_text
    \/ hybrid_search_query
    \/ RAGSystem_close
    \/ lifespan_shutdown

SpecTeardown == InitRAGFair /\ [][NextTeardown]_vars

-----------------------------------------------------------------------------
(* What the histories tell *)

\* the requests made while the returned frame r ran, by itself and by the
\* coroutines it awaited, in order
CallsOf(r) == SubSeq(calls, r.frame.base + 1, r.end)

\* r is a returned frame of one of the coroutines fns
IsReturnOf(r, fns) == r.frame.fn \in fns

\* the frame r was called with the arguments of frame f
SameArguments(r, f) ==
    /\ r.frame.query = f.query
    /\ r.frame.top_k = f.top_k
    /\ r.frame.source_id = f.source_id
    /\ r.frame.course_id = f.course_id

\* the embedding step of r failed: the service raised or gave an empty vector
EmbeddingFailed(r) ==
    LET cs == CallsOf(r)
    IN  cs # <<>> /\ cs[1].svc = "embed" /\ cs[1].outcome \in {"raise", "empty"}

\* the embedding step of r gave a vector and its semantic request raised
SemanticRequestRaised(r) ==
    LET cs == CallsOf(r)
    IN  /\ Len(cs) >= 2
        /\ cs[1].svc = "embed" /\ cs[1].outcome = "vector"
        /\ cs[2].svc = "search" /\ cs[2].kind = "semantic" /\ cs[2].outcome.raised

\* v is a list of chunks of the index
IsChunkList(v) == \A n \in 1..Len(v) : v[n] \in index

\* every request r made to the search backend raised
EveryQueryFailed(r) ==
    LET cs == CallsOf(r)
    IN  \A n \in 1..Len(cs) : cs[n].svc = "search" => cs[n].outcome.raised

\* the returned frames of get_adjacent_chunks that the returned frame r of
\* search_best_answers awaited, in order: the j-th is for the j-th ranked chunk
AdjacentReturns(r) ==
    LET Awaited(g) == /\ g.frame.fn = "get_adjacent_chunks"
                      /\ g.frame.base >= r.frame.base
                      /\ g.end <= r.end
    IN  SelectSeq(rets, Awaited)

\* the documents the requests cs yielded, in order
RECURSIVE DocsOf(_)
DocsOf(cs) ==
    IF cs = <<>> THEN <<>>
    ELSE (IF Head(cs).outcome.raised THEN <<>> ELSE Head(cs).outcome.docs)
         \o DocsOf(Tail(cs))

\* the neighbour lookups made for the returned frame r
Lookups(r) ==
    LET IsLookup(c) == c.svc = "search" /\ c.kind \in {"before", "after"}
    IN  SelectSeq(CallsOf(r), IsLookup)

\* the chunks in the order search_best_answers meets them: each ranked chunk,
\* then the neighbour found before it, then the neighbour found after it
RECURSIVE Met(_, _, _)
Met(ranked, adjacent, j) ==
    IF j > Len(ranked) THEN <<>>
    ELSE <<ranked[j]>> \o DocsOf(CallsOf(adjacent[j])) \o Met(ranked, adjacent, j + 1)

Encountered(r) == Met(r.frame.original_results, AdjacentReturns(r), 1)

\* the first occurrence of every id of chunks, in order
RECURSIVE FirstById(_, _)
FirstById(chunks, ids) ==
    IF chunks = <<>> THEN <<>>
    ELSE IF Head(chunks).id \in ids THEN FirstById(Tail(chunks), ids)
    ELSE <<Head(chunks)>> \o FirstById(Tail(chunks), ids \cup {Head(chunks).id})

DedupById(chunks) == FirstById(chunks, {})

\* where id first occurs in chunks
FirstPosition(chunks, id) == CHOOSE n \in 1..Len(chunks) :
    chunks[n].id = id /\ \A m \in 1..(n - 1) : chunks[m].id # id

\* the integer a lookup's filter compares chunk_index with
LookedUpIndex(c) == ReadFilter(c.filter).preds[3].value

-----------------------------------------------------------------------------
(* Claims *)

\* C1: whenever the embedding step of semantic_search or hybrid_search fails,
\* the coroutine makes exactly one request to the search backend, the text
\* request simple_text_search makes for the same query, top_k, source_id and
\* course_id (no vector, no semantic request), and returns exactly what
\* simple_text_search returns for the answer to that request.
C1_EmbeddingFailureDegradesToTextSearch ==
    \A n \in 1..Len(rets) :
        LET r == rets[n]
            cs == CallsOf(r)
        IN  (IsReturnOf(r, {"semantic_search", "hybrid_search"}) /\ EmbeddingFailed(r)) =>
                /\ Len(cs) = 2
                /\ cs[2] = SearchCall("text", r.frame.query, FALSE,
                                      simple_text_search_filter(r.frame.source_id,
                                                                r.frame.course_id),
                                      r.frame.top_k, cs[2].outcome)
                /\ ~r.raised
                /\ r.value = simple_text_search_result(cs[2].outcome).value
                /\ \E m \in 1..Len(rets) :
                       /\ IsReturnOf(rets[m], {"simple_text_search"})
                       /\ SameArguments(rets[m], r.frame)
                       /\ rets[m].frame.base = r.frame.base + 1
                       /\ rets[m].end = r.end
                       /\ rets[m].value = r.value

\* C1 witness: semantic_search returned documents after its embedding step failed
C1_Witness ==
    \E n \in 1..Len(rets) :
        /\ IsReturnOf(rets[n], {"semantic_search"})
        /\ EmbeddingFailed(rets[n])
        /\ rets[n].value # <<>>

\* C2: when the embedding step of semantic_search gives a vector and its
\* semantic request raises, semantic_search awaits hybrid_search with the same
\* query, top_k, source_id and course_id and returns exactly what it returns.
C2_SemanticFailureReturnsHybridResult ==
    \A n \in 1..Len(rets) :
        LET r == rets[n]
        IN  (IsReturnOf(r, {"semantic_search"}) /\ SemanticRequestRaised(r)) =>
                \E m \in 1..Len(rets) :
                    /\ IsReturnOf(rets[m], {"hybrid_search"})
                    /\ SameArguments(rets[m], r.frame)
                    /\ rets[m].frame.base = r.frame.base + 2
                    /\ rets[m].end = r.end
                    /\ rets[m].value = r.value
                    /\ rets[m].raised = r.raised

\* C2 witness: semantic_search returned the documents of the hybrid fallback
C2_Witness ==
    \E n \in 1..Len(rets) :
        /\ IsReturnOf(rets[n], {"semantic_search"})
        /\ SemanticRequestRaised(rets[n])
        /\ rets[n].value # <<>>

\* C3: whatever the embedding service and the search backend do, each of
\* simple_text_search, hybrid_search, semantic_search and search_best_answers
\* ends by returning a list of chunks, never by an exception; and when every
\* request it made to the search backend raised, the list is empty.
C3_SearchNeverRaises ==
    \A n \in 1..Len(rets) :
        LET r == rets[n]
        IN  IsReturnOf(r, {"simple_text_search", "hybrid_search", "semantic_search",
                           "search_best_answers"}) =>
                /\ ~r.raised
                /\ IsChunkList(r.value)
                /\ EveryQueryFailed(r) => r.value = <<>>

\* C3 witness: search_best_answers has returned after the semantic request and
\* the hybrid request of its primary search both raised
C3_Witness ==
    \E n \in 1..Len(rets) :
        /\ IsReturnOf(rets[n], {"search_best_answers"})
        /\ EveryQueryFailed(rets[n])
        /\ Len(CallsOf(rets[n])) = 4
        /\ stack = <<>>

\* C4: the list search_best_answers returns holds no two chunks with the same
\* id; every chunk it met, as a ranked result or as a neighbour, once or more,
\* is in the list exactly once, and the chunks stand in the order in which
\* they were first met.
C4_NoChunkTwice ==
    \A n \in 1..Len(rets) :
        LET r == rets[n]
            v == r.value
            met == Encountered(r)
        IN  (IsReturnOf(r, {"search_best_answers"}) /\ r.frame.original_results # <<>>) =>
                /\ \A a, b \in 1..Len(v) : v[a].id = v[b].id => a = b
                /\ \A e \in 1..Len(met) : \E a \in 1..Len(v) : v[a] = met[e]
                /\ \A a, b \in 1..Len(v) :
                       a < b => FirstPosition(met, v[a].id) < FirstPosition(met, v[b].id)

\* C4 witness: search_best_answers returned after meeting one chunk as the
\* neighbour of two different ranked chunks
C4_Witness ==
    \E n \in 1..Len(rets) :
        /\ IsReturnOf(rets[n], {"search_best_answers"})
        /\ Len(AdjacentReturns(rets[n])) = 2
        /\ \E a \in 1..Len(AdjacentReturns(rets[n])[1].value) :
           \E b \in 1..Len(AdjacentReturns(rets[n])[2].value) :
               AdjacentReturns(rets[n])[1].value[a] = AdjacentReturns(rets[n])[2].value[b]

\* C5: the list search_best_answers returns is the concatenation, over the
\* ranked chunks in result order, of the chunk, the neighbour its
\* chunk_index - 1 lookup found and the neighbour its chunk_index + 1 lookup
\* found, with every chunk after the first of its id removed; a neighbour
\* found is the chunk of the same source_id and course_id at that chunk_index.
C5_ResultIsDedupedExpansion ==
    \A n \in 1..Len(rets) :
        LET r == rets[n]
            ranked == r.frame.original_results
            adjacent == AdjacentReturns(r)
        IN  (IsReturnOf(r, {"search_best_answers"}) /\ ranked # <<>>) =>
                /\ Len(adjacent) = Len(ranked)
                /\ r.value = DedupById(Encountered(r))
                /\ \A j \in 1..Len(ranked) :
                       LET cs == CallsOf(adjacent[j])
                       IN  \A k \in 1..Len(cs) : \A d \in 1..Len(cs[k].outcome.docs) :
                               LET nb == cs[k].outcome.docs[d]
                               IN  /\ nb.source_id = ranked[j].source_id
                                   /\ nb.course_id = ranked[j].course_id
                                   /\ nb.chunk_index = ranked[j].chunk_index
                                          + (IF cs[k].kind = "before" THEN -1 ELSE 1)

\* C5 witness: search_best_answers returned a ranked chunk between the two
\* neighbours its lookups found
C5_Witness ==
    \E n \in 1..Len(rets) :
        /\ IsReturnOf(rets[n], {"search_best_answers"})
        /\ Len(rets[n].value) = 3
        /\ Len(rets[n].frame.original_results) = 1
        /\ rets[n].value[1] = rets[n].frame.original_results[1]

\* C6: for a chunk whose chunk_index is 0, get_adjacent_chunks makes exactly
\* one request, the chunk_index + 1 lookup; no lookup ever asks for a
\* negative chunk_index.
C6_NoBeforeLookupAtIndexZero ==
    /\ \A n \in 1..Len(calls) :
           (calls[n].svc = "search" /\ calls[n].kind \in {"before", "after"}) =>
               LookedUpIndex(calls[n]) >= 0
    /\ \A n \in 1..Len(rets) :
           LET g == rets[n]
           IN  (IsReturnOf(g, {"get_adjacent_chunks"}) /\ has_required_fields(g.frame.chunk)
                /\ g.frame.chunk.chunk_index = 0) =>
                   /\ Len(CallsOf(g)) = 1
                   /\ CallsOf(g)[1].kind = "after"
                   /\ LookedUpIndex(CallsOf(g)[1]) = 1

\* C6 witness: get_adjacent_chunks returned for a chunk whose chunk_index is 0,
\* having found its neighbour
C6_Witness ==
    \E n \in 1..Len(rets) :
        /\ IsReturnOf(rets[n], {"get_adjacent_chunks"})
        /\ rets[n].frame.chunk.chunk_index = 0
        /\ Len(rets[n].value) = 1

\* C7: when neighbour lookups raise during the expansion of the ranked list R,
\* search_best_answers still returns a list, not an exception: the list holds
\* every chunk of R, and when every lookup raised it is R itself, unexpanded.
C7_ExpansionFailureKeepsRankedResults ==
    \A n \in 1..Len(rets) :
        LET r == rets[n]
            ranked == r.frame.original_results
            lookups == Lookups(r)
        IN  (IsReturnOf(r, {"search_best_answers"})
             /\ \E k \in 1..Len(lookups) : lookups[k].outcome.raised) =>
                /\ ~r.raised
                /\ \A j \in 1..Len(ranked) : \E a \in 1..Len(r.value) : r.value[a] = ranked[j]
                /\ (\A k \in 1..Len(lookups) : lookups[k].outcome.raised) =>
                       r.value = DedupById(ranked)

\* C7 witness: search_best_answers returned two ranked chunks after every one
\* of its neighbour lookups raised
C7_Witness ==
    \E n \in 1..Len(rets) :
        /\ IsReturnOf(rets[n], {"search_best_answers"})
        /\ Len(rets[n].frame.original_results) = 2
        /\ Len(Lookups(rets[n])) >= 3
        /\ \A k \in 1..Len(Lookups(rets[n])) : Lookups(rets[n])[k].outcome.raised
        /\ rets[n].value = rets[n].frame.original_results

\* the kind of ranked request each search coroutine makes itself
OwnKind(fn) ==
    CASE fn = "simple_text_search" -> "text"
      [] fn = "hybrid_search" -> "hybrid"
      [] fn = "semantic_search" -> "semantic"

\* an identifier is given when it is neither None nor the empty string
Given(x) == x # None /\ x # <<>>

\* how many quotes the string s holds
RECURSIVE Quotes(_)
Quotes(s) ==
    IF s = <<>> THEN 0 ELSE (IF Head(s) = "'" THEN 1 ELSE 0) + Quotes(Tail(s))

\* the comparison  field eq 'value'  as the backend reads it
StringComparison(field, value) == [field |-> field, kind |-> "str", value |-> value]

\* the comparisons the filter of a search must denote for source_id and course_id
ExpectedComparisons(source_id, course_id) ==
    (IF Given(source_id) THEN <<StringComparison("source_id", source_id)>> ELSE <<>>)
    \o (IF Given(course_id) THEN <<StringComparison("course_id", course_id)>> ELSE <<>>)

\* C8: for every source_id and course_id, quotes included, the filter each of
\* simple_text_search, hybrid_search, semantic_search and get_adjacent_chunks
\* sends holds every quote of a value twice inside its literal (the quotes of
\* the filter are the two delimiters of each literal and two for each quote of
\* a value), and the backend reads it as the comparisons with exactly the
\* original values: the literal decodes to the value and the value adds no
\* comparison.
C8_QuotesDoubledInFilter ==
    \A n \in 1..Len(rets) :
        LET r == rets[n]
            cs == CallsOf(r)
        IN  /\ IsReturnOf(r, SearchCoroutines) =>
                   \A k \in 1..Len(cs) :
                       LET s == r.frame.source_id
                           c == r.frame.course_id
                           expected == ExpectedComparisons(s, c)
                       IN  (cs[k].svc = "search" /\ cs[k].kind = OwnKind(r.frame.fn)
                            /\ expected # <<>>) =>
                               /\ ReadFilter(cs[k].filter) = [ok |-> TRUE, preds |-> expected]
                               /\ Quotes(cs[k].filter) =
                                      2 * Len(expected)
                                      + (IF Given(s) THEN 2 * Quotes(s) ELSE 0)
                                      + (IF Given(c) THEN 2 * Quotes(c) ELSE 0)
            /\ IsReturnOf(r, {"get_adjacent_chunks"}) =>
                   \A k \in 1..Len(cs) :
                       LET ch == r.frame.chunk
                           rd == ReadFilter(cs[k].filter)
                       IN  /\ rd.ok
                           /\ Len(rd.preds) = 3
                           /\ rd.preds[1] = StringComparison("source_id", ch.source_id)
                           /\ rd.preds[2] = StringComparison("course_id", ch.course_id)
                           /\ rd.preds[3] = [field |-> "chunk_index", kind |-> "int",
                                             value |-> ch.chunk_index
                                                 + (IF cs[k].kind = "before" THEN -1 ELSE 1)]
                           /\ Quotes(cs[k].filter) =
                                  4 + 2 * Quotes(ch.source_id) + 2 * Quotes(ch.course_id)

\* C8 witness: semantic_search has sent its request for a source_id written
\* to end the literal and add a comparison
C8_Witness ==
    \E n \in 1..Len(rets) : \E k \in 1..Len(calls) :
        /\ IsReturnOf(rets[n], {"semantic_search"})
        /\ rets[n].frame.source_id = Injection
        /\ calls[k].svc = "search" /\ calls[k].kind = "semantic"
        /\ Len(ReadFilter(calls[k].filter).preds) = 1

\* C9: in simple_text_search, hybrid_search and semantic_search the request
\* carries no filter when neither source_id nor course_id is given, one
\* comparison when exactly one is given, and the source_id comparison followed
\* by the course_id comparison, joined by "and", when both are given; an
\* identifier that is absent (None or the empty string) never gets a comparison.
C9_FilterIsConjunctionOfGiven ==
    \A n \in 1..Len(rets) :
        LET r == rets[n]
            cs == CallsOf(r)
            fields == (IF Given(r.frame.source_id) THEN <<"source_id">> ELSE <<>>)
                      \o (IF Given(r.frame.course_id) THEN <<"course_id">> ELSE <<>>)
        IN  IsReturnOf(r, SearchCoroutines) =>
                \A k \in 1..Len(cs) :
                    (cs[k].svc = "search" /\ cs[k].kind = OwnKind(r.frame.fn)) =>
                        LET rd == ReadFilter(cs[k].filter)
                        IN  /\ (cs[k].filter = NoFilter) <=> (fields = <<>>)
                            /\ rd.ok
                            /\ Len(rd.preds) = Len(fields)
                            /\ \A j \in 1..Len(fields) :
                                   rd.preds[j].field = fields[j] /\ rd.preds[j].kind = "str"

\* C9 witness: semantic_search has sent a request whose filter joins the two
\* comparisons, and one that carries no filter because source_id is empty
C9_Witness ==
    \E n \in 1..Len(rets) : \E k \in 1..Len(calls) :
        /\ IsReturnOf(rets[n], {"semantic_search"})
        /\ Given(rets[n].frame.source_id) /\ Given(rets[n].frame.course_id)
        /\ calls[k].svc = "search" /\ calls[k].kind = "semantic"
        /\ Len(ReadFilter(calls[k].filter).preds) = 2

\* the return of the retrieval (semantic_search) that generate_answer awaited
Retrieved(r) ==
    {m \in 1..Len(rets) :
        /\ rets[m].frame.fn = "semantic_search"
        /\ rets[m].frame.base >= r.frame.base
        /\ rets[m].end <= r.end}

\* C10: when the retrieval generate_answer awaits returns no chunk,
\* generate_answer returns an envelope whose success is false, whose sources
\* are the empty list and whose conversation_history is the input history,
\* entry for entry, with no turn appended.
C10_NoContentEnvelope ==
    \A n \in 1..Len(rets) :
        LET r == rets[n]
        IN  (IsReturnOf(r, {"generate_answer"})
             /\ \E m \in Retrieved(r) : ~rets[m].raised /\ rets[m].value = <<>>) =>
                /\ ~r.raised
                /\ r.value.success = FALSE
                /\ r.value.sources = <<>>
                /\ r.value.conversation_history = r.frame.conversation_history

\* C10 witness: generate_answer has returned for a history of two entries
\* after a retrieval that returned no chunk
C10_Witness ==
    \E n \in 1..Len(rets) :
        /\ IsReturnOf(rets[n], {"generate_answer"})
        /\ Len(rets[n].frame.conversation_history) = 2
        /\ \E m \in Retrieved(rets[n]) : rets[m].value = <<>>
        /\ rets[n].value.success = FALSE

\* t is a contiguous part of s
IsInfix(t, s) ==
    \E i \in 0..(Len(s) - Len(t)) : SubSeq(s, i + 1, i + Len(t)) = t

\* t is s without the whitespace around it
IsTrimOf(t, s) ==
    /\ t # <<>> => (t[1] \notin Whitespace /\ t[Len(t)] \notin Whitespace)
    /\ \E i \in 0..Len(s), j \in 0..Len(s) :
           /\ i + Len(t) + j = Len(s)
           /\ SubSeq(s, i + 1, i + Len(t)) = t
           /\ \A k \in (1..i) \cup ((Len(s) - j + 1)..Len(s)) : s[k] \in Whitespace

\* the context block of the first n chunks: "Source i:" and the text of the
\* i-th chunk on the next line, the blocks one blank line apart
RECURSIVE ContextBlock(_, _)
ContextBlock(chunks, n) ==
    IF n = 0 THEN <<>>
    ELSE ContextBlock(chunks, n - 1)
         \o (IF n > 1 THEN <<"\n", "\n">> ELSE <<>>)
         \o <<"Source ">> \o nat_str(n) \o <<":", "\n">>
         \o (IF "text" \in DOMAIN chunks[n] THEN chunks[n].text ELSE <<>>)

\* the completion requests generate_answer made during r that were answered
Answered(r) ==
    {k \in (r.frame.base + 1)..r.end : calls[k].svc = "chat" /\ ~calls[k].outcome.raised}

\* C11: a generate_answer call that succeeds on an input history of N entries
\* returns a history of N+2 entries: the N input entries in order, then a user
\* entry whose content contains the context block assembled from the retrieved
\* chunks, then an assistant entry whose content is the model's answer without
\* the whitespace around it.
C11_HistoryGrowsByTheExchange ==
    \A n \in 1..Len(rets) :
        LET r == rets[n]
            input == r.frame.conversation_history
            N == Len(input)
            h == r.value.conversation_history
        IN  (IsReturnOf(r, {"generate_answer"}) /\ r.value.success) =>
                /\ Len(h) = N + 2
                /\ SubSeq(h, 1, N) = input
                /\ h[N + 1].role = "user"
                /\ \E m \in Retrieved(r) :
                       /\ rets[m].value # <<>>
                       /\ IsInfix(ContextBlock(rets[m].value, Len(rets[m].value)),
                                  h[N + 1].content)
                /\ h[N + 2].role = "assistant"
                /\ \E k \in Answered(r) : IsTrimOf(h[N + 2].content, calls[k].outcome.content)

\* C11 witness: generate_answer has succeeded on a history of two entries,
\* with two chunks retrieved and an answer that came with whitespace around it
C11_Witness ==
    \E n \in 1..Len(rets) :
        /\ IsReturnOf(rets[n], {"generate_answer"})
        /\ rets[n].value.success
        /\ Len(rets[n].frame.conversation_history) = 2
        /\ Len(rets[n].value.conversation_history) = 4
        /\ Len(rets[n].value.sources) = 2
        /\ \E k \in Answered(rets[n]) :
               calls[k].outcome.content # rets[n].value.final_answer

\* C12: on a successful generate_answer call, the content of the user entry
\* appended to the history is exactly the content of the last message (the
\* user message with the query and the context) of the completion request of
\* that call.
C12_HistoryReplaysSentMessage ==
    \A n \in 1..Len(rets) :
        LET r == rets[n]
            h == r.value.conversation_history
        IN  (IsReturnOf(r, {"generate_answer"}) /\ r.value.success) =>
                \A k \in Answered(r) :
                    LET messages == calls[k].messages
                    IN  h[Len(h) - 1].content = messages[Len(messages)].content

\* the completion requests generate_answer made during r
Completions(r) == {k \in (r.frame.base + 1)..r.end : calls[k].svc = "chat"}

\* C13: for an input history of N entries the completion request carries N+2
\* messages: one system message, first; then the N history messages in their
\* order and with their content, each with the role user or assistant (an
\* entry whose role is another one, or missing, is sent as user); then one
\* user message that carries the query and the context.
C13_MessagesAreSystemHistoryQuery ==
    \A n \in 1..Len(rets) :
        LET r == rets[n]
            input == r.frame.conversation_history
            N == Len(input)
        IN  IsReturnOf(r, {"generate_answer"}) =>
                \A k \in Completions(r) :
                    LET messages == calls[k].messages
                    IN  /\ Len(messages) = N + 2
                        /\ \A i \in 1..(N + 2) : (messages[i].role = "system") <=> (i = 1)
                        /\ \A i \in 1..N :
                               /\ messages[i + 1].role \in {"user", "assistant"}
                               /\ ("role" \in DOMAIN input[i]
                                   /\ input[i].role \in {"user", "assistant"})
                                      => messages[i + 1].role = input[i].role
                               /\ ("role" \notin DOMAIN input[i]
                                   \/ input[i].role \notin {"user", "assistant"})
                                      => messages[i + 1].role = "user"
                               /\ messages[i + 1].content = input[i].content
                        /\ messages[N + 2].role = "user"
                        /\ IsInfix(r.frame.user_message, messages[N + 2].content)
                        /\ \E m \in Retrieved(r) :
                               IsInfix(ContextBlock(rets[m].value, Len(rets[m].value)),
                                       messages[N + 2].content)

\* C13 witness: a completion request has been made for a history whose first
\* entry has the role system and whose second entry has no role
C13_Witness ==
    \E n \in 1..Len(rets) :
        /\ IsReturnOf(rets[n], {"generate_answer"})
        /\ Len(rets[n].frame.conversation_history) = 2
        /\ rets[n].frame.conversation_history[1].role = "system"
        /\ "role" \notin DOMAIN rets[n].frame.conversation_history[2]
        /\ \E k \in Completions(rets[n]) : Len(calls[k].messages) = 4

\* the envelope r.value reports a failure of message e and echoes the input
IsFailureEcho(r, e) ==
    /\ ~r.raised
    /\ r.value.success = FALSE
    /\ r.value.sources = <<>>
    /\ r.value.error = e
    /\ r.value.conversation_history = r.frame.conversation_history

\* C14: generate_answer never raises, and when an exception reaches it (the
\* retrieval raised, the completion request raised, or the completion came
\* without content so that trimming it raised) it returns an envelope whose
\* success is false, whose sources are the empty list, whose error is the
\* message of the exception and whose conversation_history is the input
\* history, no turn appended.
C14_ExceptionBecomesFailureEnvelope ==
    \A n \in 1..Len(rets) :
        LET r == rets[n]
        IN  IsReturnOf(r, {"generate_answer"}) =>
                /\ ~r.raised
                /\ (\E m \in Retrieved(r) : rets[m].raised)
                       => IsFailureEcho(r, ExceptionMessage)
                /\ \A k \in Completions(r) :
                       /\ calls[k].outcome.raised => IsFailureEcho(r, ExceptionMessage)
                       /\ (~calls[k].outcome.raised /\ calls[k].outcome.content = None)
                              => IsFailureEcho(r, NoneHasNoStrip)

\* C14 witness: generate_answer has returned for a history of two entries
\* after its completion request raised
C14_Witness ==
    \E n \in 1..Len(rets) :
        /\ IsReturnOf(rets[n], {"generate_answer"})
        /\ Len(rets[n].frame.conversation_history) = 2
        /\ \E k \in Completions(rets[n]) : calls[k].outcome.raised
        /\ rets[n].value.error = ExceptionMessage

\* C15 as stated: each envelope generate_answer or get_help returns has the
\* fields of the envelope the exception outcome of the same call has, so that
\* the fields are the same in every outcome.
C15_SameFieldsInEveryOutcome ==
    \A n \in 1..Len(rets) :
        LET r == rets[n]
        IN  /\ IsReturnOf(r, {"generate_answer"}) =>
                   DOMAIN r.value = DOMAIN error_envelope(r.frame, ExceptionMessage)
            /\ IsReturnOf(r, {"get_help"}) =>
                   DOMAIN r.value = DOMAIN help_error_envelope(r.frame, ExceptionMessage)

\* the fields every envelope of generate_answer, and of get_help, holds
AnswerFields ==
    {"conversation_id", "conversation_history", "course_id", "user_message", "stage",
     "final_answer", "sources", "timestamp", "success"}
HelpFields ==
    {"conversation_id", "mode", "identifier", "query", "response", "sources",
     "success", "timestamp"}

\* an exception reached the call r: its retrieval raised, or its completion
\* request raised or came without content
ExceptionReached(r) ==
    \/ \E m \in Retrieved(r) : rets[m].raised
    \/ \E k \in Completions(r) : calls[k].outcome.raised \/ calls[k].outcome.content = None

\* C15 as amended: every envelope of generate_answer holds the nine fields
\* of AnswerFields, and the field error exactly when success is false; every
\* envelope of get_help holds the eight fields of HelpFields, the field
\* conversation_history exactly when success is true and the field error
\* exactly when an exception reached get_help; no envelope holds another field.
C15_FieldsByOutcome ==
    \A n \in 1..Len(rets) :
        LET r == rets[n]
        IN  /\ IsReturnOf(r, {"generate_answer"}) =>
                   DOMAIN r.value =
                       AnswerFields \cup (IF r.value.success THEN {} ELSE {"error"})
            /\ IsReturnOf(r, {"get_help"}) =>
                   DOMAIN r.value =
                       HelpFields
                       \cup (IF r.value.success THEN {"conversation_history"} ELSE {})
                       \cup (IF ExceptionReached(r) THEN {"error"} ELSE {})

\* C15 witness: get_help has returned the envelope of its except clause, which
\* holds error and no conversation_history
C15_Witness ==
    \E n \in 1..Len(rets) :
        /\ IsReturnOf(rets[n], {"get_help"})
        /\ ExceptionReached(rets[n])
        /\ "error" \in DOMAIN rets[n].value
        /\ "conversation_history" \notin DOMAIN rets[n].value

\* a str field of a request body is missing: it is empty
Missing(request, fields) == \E k \in fields : request[k] = <<>>

\* r ended before any request to a collaborator and before any coroutine it
\* could have awaited
NothingIssued(r, n) == r.end = r.frame.base /\ \A m \in 1..(n - 1) : rets[m].end < r.frame.base

\* C16: invalid input is refused before any retrieval or model call.  get_help
\* called with a mode that is neither lecture nor full_course returns an
\* envelope whose success is false; free_chat_endpoint refuses (status 400) a
\* request whose conversation_id, course_id, user_message or stage is missing,
\* and test_myself_endpoint one whose conversation_id, mode, identifier or
\* query is missing or whose mode is not recognized; in each case no request
\* to the embedding service, the search backend, the prompt store or the
\* completion model was made and no coroutine was awaited.
C16_InvalidInputRefusedFirst ==
    \A n \in 1..Len(rets) :
        LET r == rets[n]
        IN  /\ (IsReturnOf(r, {"get_help"})
                /\ r.frame.mode \notin {<<"lecture">>, <<"full_course">>}) =>
                   /\ ~r.raised
                   /\ r.value.success = FALSE
                   /\ NothingIssued(r, n)
            /\ (IsReturnOf(r, {"free_chat_endpoint"})
                /\ Missing(r.frame.request,
                           {"conversation_id", "course_id", "user_message", "stage"})) =>
                   /\ r.value.status_code = 400
                   /\ NothingIssued(r, n)
            /\ (IsReturnOf(r, {"test_myself_endpoint"})
                /\ (\/ Missing(r.frame.request,
                               {"conversation_id", "mode", "identifier", "query"})
                    \/ r.frame.request.mode \notin {<<"lecture">>, <<"full_course">>})) =>
                   /\ r.value.status_code = 400
                   /\ NothingIssued(r, n)

\* C16 witness: test_myself_endpoint has refused a request that lacks nothing
\* but whose mode is quiz
C16_Witness ==
    \E n \in 1..Len(rets) :
        /\ IsReturnOf(rets[n], {"test_myself_endpoint"})
        /\ ~Missing(rets[n].frame.request, {"conversation_id", "mode", "identifier", "query"})
        /\ rets[n].frame.request.mode = <<"quiz">>
        /\ rets[n].value.status_code = 400
        /\ calls = <<>>

\* the requests to the search backend made during r
Searches(r) == {k \in (r.frame.base + 1)..r.end : calls[k].svc = "search"}

\* the semantic_search calls that returned during r
SemanticSearches(r, n) ==
    {m \in 1..(n - 1) : rets[m].frame.fn = "semantic_search" /\ rets[m].frame.base >= r.frame.base}

OptionalKeys == {"start_time", "end_time", "section_title"}

\* C18: for the chunks c1..cn it is given, _extract_sources_info returns n
\* records, the i-th for ci with index i; the record copies source_id,
\* course_id and chunk_index of the chunk and its score, 0 when the chunk has
\* none; start_time, end_time and section_title are keys of the record exactly
\* when the chunk has a non-empty value for them, and then hold that value.
C18_SourcesMirrorChunks ==
    \A n \in 1..Len(rets) :
        LET r == rets[n]
        IN  (IsReturnOf(r, {"generate_answer"}) /\ r.value.success) =>
                \A m \in Retrieved(r) :
                    LET chunks == rets[m].value
                        sources == r.value.sources
                    IN  /\ Len(sources) = Len(chunks)
                        /\ \A i \in 1..Len(chunks) :
                               /\ sources[i].index = i
                               /\ sources[i].source_id = chunks[i].source_id
                               /\ sources[i].course_id = chunks[i].course_id
                               /\ sources[i].chunk_index = chunks[i].chunk_index
                               /\ sources[i].relevance_score =
                                      (IF "@search.score" \in DOMAIN chunks[i]
                                       THEN chunks[i]["@search.score"] ELSE 0)
                               /\ \A key \in OptionalKeys :
                                      /\ (key \in DOMAIN sources[i]) <=>
                                             (key \in DOMAIN chunks[i] /\ chunks[i][key] # <<>>)
                                      /\ key \in DOMAIN sources[i] =>
                                             sources[i][key] = chunks[i][key]

\* C18 witness: generate_answer has returned two source records, one for a
\* chunk with a score, a start_time and an empty end_time, one for a chunk
\* without a score
C18_Witness ==
    \E n \in 1..Len(rets) :
        /\ IsReturnOf(rets[n], {"generate_answer"})
        /\ rets[n].value.success
        /\ Len(rets[n].value.sources) = 2
        /\ \E i, j \in 1..2 :
               /\ rets[n].value.sources[i].relevance_score = 3
               /\ "start_time" \in DOMAIN rets[n].value.sources[i]
               /\ "end_time" \notin DOMAIN rets[n].value.sources[i]
               /\ rets[n].value.sources[j].relevance_score = 0

\* C19: in every envelope generate_answer or get_help returns, the text preview
\* of each source record is capped: it is never longer than the preview length
\* (150 characters, and the three of the ellipsis get_help adds), however long
\* the text of the chunk is.
C19_PreviewsCapped ==
    \A n \in 1..Len(rets) :
        LET r == rets[n]
        IN  /\ IsReturnOf(r, {"generate_answer"}) =>
                   \A i \in 1..Len(r.value.sources) :
                       Len(r.value.sources[i].text_preview) <= PreviewLength + 3
            /\ IsReturnOf(r, {"get_help"}) =>
                   \A i \in 1..Len(r.value.sources) :
                       Len(r.value.sources[i].preview) <= PreviewLength + 3

\* the text of a chunk, empty when it has none
TextOf(chunk) == IF "text" \in DOMAIN chunk THEN chunk.text ELSE <<>>

\* the positions of s where a block header starts
Headers(s) == {p \in 1..Len(s) : s[p] = "Source "}

\* C20: for the chunks c1..cn, _build_context_from_chunks returns the blocks
\* "Source i:", a newline and the text of ci, for i = 1..n in the order of the
\* chunks, two newlines between consecutive blocks; a chunk without text gives
\* a block with an empty body; every chunk has its block and every text is
\* whole; the empty list gives the empty string.
C20_ContextIsNumberedBlocks ==
    \A n \in 1..Len(rets) :
        LET r == rets[n]
            chunks == r.frame.chunks
        IN  IsReturnOf(r, {"_build_context_from_chunks"}) =>
                /\ r.value = ContextBlock(chunks, Len(chunks))
                /\ chunks = <<>> => r.value = <<>>
                /\ Cardinality(Headers(r.value)) = Len(chunks)
                /\ \A i \in 1..Len(chunks) :
                       IsInfix(<<"Source ">> \o nat_str(i) \o <<":", "\n">> \o TextOf(chunks[i]),
                               r.value)

\* C20 witness: the context of three chunks has been built, the first chunk
\* without a text key and the second with an empty text
C20_Witness ==
    \E n \in 1..Len(rets) :
        /\ IsReturnOf(rets[n], {"_build_context_from_chunks"})
        /\ Len(rets[n].frame.chunks) = 3
        /\ "text" \notin DOMAIN rets[n].frame.chunks[1]
        /\ rets[n].frame.chunks[2].id = "q2"
        /\ rets[n].frame.chunks[2].text = <<>>
        /\ rets[n].frame.chunks[3].id = "b0"
        /\ Len(rets[n].value) = 16 + Len(LongText)

\* the syllabus download of the generate_answer call r: its first request
SyllabusDownload(r) == calls[r.frame.base + 1]

\* the download of r gave nothing (None) or raised
SyllabusMissing(r) ==
    /\ SyllabusDownload(r).svc = "blob"
    /\ SyllabusDownload(r).outcome.raised \/ SyllabusDownload(r).outcome.bytes = None

\* C21: a missing syllabus is not fatal.  When the syllabus download of a
\* generate_answer call returns nothing or raises, the syllabus the call holds
\* is the empty string, the retrieval is still requested after the download,
\* the completion is still requested when the retrieval gave chunks, the
\* system message of every completion request is the persona alone with no
\* syllabus appendix, and such a call can end with success true (the witness).
C21_MissingSyllabusIsNotFatal ==
    \A n \in 1..Len(rets) :
        LET r == rets[n]
        IN  (IsReturnOf(r, {"generate_answer"}) /\ SyllabusMissing(r)) =>
                /\ r.frame.syllabus_content = <<>>
                /\ Retrieved(r) # {}
                /\ \E k \in (r.frame.base + 2)..r.end : calls[k].svc \in {"embed", "search"}
                /\ \A m \in Retrieved(r) :
                       (~rets[m].raised /\ rets[m].value # <<>>) => Completions(r) # {}
                /\ \A k \in Completions(r) :
                       /\ calls[k].messages[1].role = "system"
                       /\ calls[k].messages[1].content = base_prompt
                /\ ~r.raised

\* a call whose syllabus download raised has ended with success true, after a
\* completion request
C21_Witness ==
    \E n \in 1..Len(rets) :
        /\ IsReturnOf(rets[n], {"generate_answer"})
        /\ SyllabusDownload(rets[n]).outcome.raised
        /\ Completions(rets[n]) # {}
        /\ rets[n].value.success = TRUE
        /\ rets[n].frame.syllabus_content = <<>>

\* the sections a call of get_prompt reads: those of the file when it loads
\* the file (reload, or the prompt type not cached), else those cached
SectionsRead(r) ==
    LET f == r.frame
    IN  IF f.reload \/ f.prompt_type \notin DOMAIN f.cache
        THEN Get(prompts_dir, f.prompt_type \o "_prompt", <<>>)
        ELSE f.cache[f.prompt_type]

\* the names under which get_prompt may find the section asked for
SectionNames(section) ==
    {lower(section) \o e : e \in {"", MathematicalWithName, HumanitiesWithName,
                                  MathematicalGeneral, HumanitiesGeneral}}

\* the template a call found lacks a field the keyword arguments do not give
LacksKey(r) ==
    \E k \in SectionNames(r.frame.section) \cap DOMAIN SectionsRead(r) :
        /\ raises_KeyError(SectionsRead(r)[k], r.frame.kwargs)
        /\ \A j \in (SectionNames(r.frame.section) \cap DOMAIN SectionsRead(r)) \ {k} :
               raises_KeyError(SectionsRead(r)[j], r.frame.kwargs)

\* C22, its second part: get_prompt returns the empty string for an unknown
\* prompt type, for a file that cannot be loaded and for a missing section
C22_EmptyOnFailure ==
    \A n \in 1..Len(rets) :
        LET r == rets[n]
            f == r.frame
        IN  (IsReturnOf(r, {"get_prompt"}) /\ ~r.raised) =>
                /\ f.prompt_type \notin {"free_chat", "test_myself"} => r.value = <<>>
                /\ SectionsRead(r) = <<>> => r.value = <<>>
                /\ SectionNames(f.section) \cap DOMAIN SectionsRead(r) = {} => r.value = <<>>

\* C22, its third part: when the template lacks a key, get_prompt returns the
\* template as it is in the file
C22_TemplateWhenKeyMissing ==
    \A n \in 1..Len(rets) :
        LET r == rets[n]
        IN  (IsReturnOf(r, {"get_prompt"}) /\ ~r.raised
             /\ r.frame.prompt_type \in {"free_chat", "test_myself"}
             /\ DOMAIN r.frame.kwargs # {} /\ LacksKey(r)) =>
                \E k \in DOMAIN SectionsRead(r) : r.value = SectionsRead(r)[k]

\* C22: get_prompt never raises: for every prompt type, section and keyword
\* arguments it returns a string, the empty string for an unknown prompt type,
\* for a file that cannot be loaded and for a missing section, and the
\* template as it is in the file when the keyword arguments lack a field of
\* the template.
C22_GetPromptNeverRaises ==
    /\ \A n \in 1..Len(rets) : IsReturnOf(rets[n], {"get_prompt"}) => ~rets[n].raised
    /\ C22_EmptyOnFailure
    /\ C22_TemplateWhenKeyMissing

\* the chunk_index values of chunks, in order
RECURSIVE IndicesOf(_)
IndicesOf(chunks) ==
    IF chunks = <<>> THEN <<>>
    ELSE <<Head(chunks).chunk_index>> \o IndicesOf(Tail(chunks))

\* the indices the neighbour lookups of r asked for, in order
RECURSIVE ProbedBy(_)
ProbedBy(lookups) ==
    IF lookups = <<>> THEN <<>>
    ELSE <<LookedUpIndex(Head(lookups))>> \o ProbedBy(Tail(lookups))
Probed(r) == ProbedBy(Lookups(r))

\* C23 as stated: when the primary search returns three chunks with
\* chunk_index 4, 5 and 9 of one source, the expansion probes exactly the
\* neighbour indices 3, 5, 8 and 10, none on behalf of the chunk with index 5,
\* and returns at most 7 chunks.
C23_ProbesFourNeighbours ==
    \A n \in 1..Len(rets) :
        LET r == rets[n]
        IN  (IsReturnOf(r, {"search_best_answers"})
             /\ IndicesOf(r.frame.original_results) = <<4, 5, 9>>) =>
                /\ Probed(r) = <<3, 5, 8, 10>>
                /\ Len(r.value) <= 7

\* C23 amended: when the primary search returns three chunks with chunk_index
\* 4, 5 and 9 of one source, the expansion probes the two neighbour indices of
\* every ranked chunk, the chunk with index 5 included: 3 and 5, then 4 and 6,
\* then 8 and 10; the chunks with index 4 and 5 found again as neighbours are
\* not added a second time, and at most 7 chunks are returned.
C23_ProbesNeighboursOfEveryRankedChunk ==
    \A n \in 1..Len(rets) :
        LET r == rets[n]
        IN  (IsReturnOf(r, {"search_best_answers"})
             /\ IndicesOf(r.frame.original_results) = <<4, 5, 9>>) =>
                /\ Probed(r) = <<3, 5, 4, 6, 8, 10>>
                /\ Len(r.value) <= 7
                /\ \A i, j \in 1..Len(r.value) : r.value[i].id = r.value[j].id => i = j

\* the expansion of the chunks 4, 5 and 9 has returned 7 chunks after six
\* lookups that all found their chunk
C23_Witness ==
    \E n \in 1..Len(rets) :
        /\ IsReturnOf(rets[n], {"search_best_answers"})
        /\ IndicesOf(rets[n].frame.original_results) = <<4, 5, 9>>
        /\ Len(Lookups(rets[n])) = 6
        /\ IndicesOf(rets[n].value) = <<4, 3, 5, 6, 9, 8, 10>>

\* the embedding requests and the semantic requests made within the call r
Embeddings(r) == {k \in (r.frame.base + 1)..r.end : calls[k].svc = "embed"}
SemanticQueries(r) ==
    {k \in (r.frame.base + 1)..r.end : calls[k].svc = "search" /\ calls[k].kind = "semantic"}

\* the request k failed
Failed(k) ==
    IF calls[k].svc = "embed" THEN calls[k].outcome \in {"raise", "empty"}
    ELSE calls[k].outcome.raised

\* no embedding request and no semantic request of r is made again after it
\* failed
FailedNotReissued(r) ==
    \A j, k \in Embeddings(r) \cup SemanticQueries(r) :
        (j < k /\ Failed(j)) => calls[k].svc # calls[j].svc

\* C24 as stated: within one semantic_search or search_best_answers call the
\* embedding request for the query and the semantic backend query are each
\* issued at most once, and a failed one is never issued again.
C24_EachIssuedAtMostOnce ==
    \A n \in 1..Len(rets) :
        LET r == rets[n]
        IN  IsReturnOf(r, {"semantic_search", "search_best_answers"}) =>
                /\ Cardinality(Embeddings(r)) <= 1
                /\ Cardinality(SemanticQueries(r)) <= 1
                /\ FailedNotReissued(r)

\* C24 amended: within one semantic_search or search_best_answers call the
\* semantic backend query is issued at most once and the embedding request
\* for the query at most twice; it is issued twice exactly when the first gave
\* a vector and the semantic query raised, the second one by the hybrid
\* fallback for the same query; an embedding request or a semantic query that
\* failed is never issued again.
C24_NoRetryButFallbackEmbedsAgain ==
    \A n \in 1..Len(rets) :
        LET r == rets[n]
            E == Embeddings(r)
            Q == SemanticQueries(r)
        IN  IsReturnOf(r, {"semantic_search", "search_best_answers"}) =>
                /\ Cardinality(Q) <= 1
                /\ Cardinality(E) <= 2
                /\ Cardinality(E) = 2 <=> \E q \in Q : calls[q].outcome.raised
                /\ \A j, k \in E :
                       j < k => /\ calls[j].outcome = "vector"
                                /\ calls[k].input = calls[j].input
                                /\ \E q \in Q : j < q /\ q < k /\ calls[q].outcome.raised
                                /\ \E m \in 1..Len(rets) :
                                       /\ IsReturnOf(rets[m], {"hybrid_search"})
                                       /\ rets[m].frame.base = k - 1
                /\ FailedNotReissued(r)

\* a search_best_answers call has returned chunks after its semantic query
\* raised and the query was embedded a second time
C24_Witness ==
    \E n \in 1..Len(rets) :
        /\ IsReturnOf(rets[n], {"search_best_answers"})
        /\ Cardinality(Embeddings(rets[n])) = 2
        /\ \E q \in SemanticQueries(rets[n]) : calls[q].outcome.raised
        /\ rets[n].value # <<>>

\* C25: a neighbour lookup that fails skips that neighbour only.  When the
\* chunk_index - 1 lookup of a ranked chunk raises, the chunk_index + 1 lookup
\* of the same chunk is still made, right after it; and the list
\* search_best_answers returns holds every ranked chunk and every neighbour
\* any lookup of the call found.
C25_FailedLookupSkipsOneNeighbour ==
    \A n \in 1..Len(rets) :
        LET r == rets[n]
            ranked == r.frame.original_results
            adjacent == AdjacentReturns(r)
            found == DocsOf(Lookups(r))
        IN  (IsReturnOf(r, {"search_best_answers"}) /\ ranked # <<>>) =>
                /\ \A j \in 1..Len(adjacent) :
                       LET cs == CallsOf(adjacent[j])
                       IN  (cs # <<>> /\ cs[1].kind = "before" /\ cs[1].outcome.raised) =>
                               /\ Len(cs) = 2
                               /\ cs[2].kind = "after"
                               /\ LookedUpIndex(cs[2]) = adjacent[j].frame.chunk.chunk_index + 1
                               /\ LookedUpIndex(cs[1]) = adjacent[j].frame.chunk.chunk_index - 1
                /\ (\E k \in 1..Len(Lookups(r)) : Lookups(r)[k].outcome.raised) =>
                       /\ ~r.raised
                       /\ \A j \in 1..Len(ranked) :
                              \E a \in 1..Len(r.value) : r.value[a] = ranked[j]
                       /\ \A d \in 1..Len(found) :
                              \E a \in 1..Len(r.value) : r.value[a] = found[d]

\* search_best_answers has returned a ranked chunk and the neighbour after it,
\* the lookup of the neighbour before it having raised
C25_Witness ==
    \E n \in 1..Len(rets) :
        LET r == rets[n]
        IN  /\ IsReturnOf(r, {"search_best_answers"})
            /\ Len(AdjacentReturns(r)) = 3
            /\ LET cs == CallsOf(AdjacentReturns(r)[1])
               IN  /\ Len(cs) = 2
                   /\ cs[1].outcome.raised
                   /\ ~cs[2].outcome.raised /\ cs[2].outcome.docs # <<>>
                   /\ \E a \in 1..Len(r.value) : r.value[a] = cs[2].outcome.docs[1]
            /\ Len(r.value) > Len(r.frame.original_results)

\* the frames of get_adjacent_chunks on the stack
LiveExpansions == {i \in 1..Len(stack) : stack[i].fn = "get_adjacent_chunks"}

\* C27: within one search_best_answers call over n ranked chunks the neighbour
\* lookups are made one after the other: at most one get_adjacent_chunks is
\* in progress at any time, and search_best_answers is suspended on it; the
\* j-th get_adjacent_chunks is for the j-th ranked chunk and has ended before
\* the next one starts; each makes its chunk_index - 1 lookup (if any) before
\* its chunk_index + 1 lookup; and at most 2 n lookups are made in all.
C27_LookupsAreSequential ==
    /\ Cardinality(LiveExpansions) <= 1
    /\ \A i \in LiveExpansions :
           /\ i = Len(stack)
           /\ i > 1 => stack[i - 1].fn = "search_best_answers" /\ stack[i - 1].pc = "adjacent"
    /\ \A n \in 1..Len(rets) :
           LET r == rets[n]
               ranked == r.frame.original_results
               adjacent == AdjacentReturns(r)
           IN  (IsReturnOf(r, {"search_best_answers"}) /\ ranked # <<>>) =>
                   /\ Len(adjacent) = Len(ranked)
                   /\ Len(Lookups(r)) <= 2 * Len(ranked)
                   /\ \A j \in 1..Len(adjacent) :
                          LET cs == CallsOf(adjacent[j])
                              at == ranked[j].chunk_index
                          IN  /\ adjacent[j].frame.chunk = ranked[j]
                              /\ j < Len(adjacent) =>
                                     adjacent[j].end <= adjacent[j + 1].frame.base
                              /\ Len(cs) <= 2
                              /\ \A k \in 1..Len(cs) : cs[k].kind \in {"before", "after"}
                              /\ Len(cs) = 2 =>
                                     /\ cs[1].kind = "before" /\ LookedUpIndex(cs[1]) = at - 1
                                     /\ cs[2].kind = "after" /\ LookedUpIndex(cs[2]) = at + 1
                              /\ Len(cs) = 1 =>
                                     cs[1].kind = "after" /\ LookedUpIndex(cs[1]) = at + 1
                   /\ Len(Lookups(r)) = Len(CallsOf(r))

\* search_best_answers has returned after six lookups for three ranked chunks
C27_Witness ==
    \E n \in 1..Len(rets) :
        /\ IsReturnOf(rets[n], {"search_best_answers"})
        /\ Len(rets[n].frame.original_results) = 3
        /\ Len(Lookups(rets[n])) = 6
        /\ IndicesOf(rets[n].frame.original_results) = <<9, 5, 4>>

\* the requests made so far by the one generate_answer call of a behaviour
\* are in order: the syllabus download first and once, then embedding and
\* search requests, then at most one completion request, after which nothing
CallsInOrder ==
    /\ calls # <<>> => calls[1].svc = "blob"
    /\ \A k \in 2..Len(calls) :
           \/ calls[k].svc \in {"embed", "search"}
           \/ calls[k].svc = "chat" /\ k = Len(calls)
    /\ \A k \in 1..Len(calls) :
           calls[k].svc = "chat" =>
               \E m \in 1..Len(rets) :
                   /\ IsReturnOf(rets[m], {"semantic_search"})
                   /\ rets[m].frame.base = 1
                   /\ rets[m].end = k - 1
                   /\ ~rets[m].raised
                   /\ rets[m].value # <<>>
    /\ \A k \in 1..Len(calls) :
           calls[k].svc \in {"embed", "search"} =>
               \A m \in 1..Len(rets) : ~IsReturnOf(rets[m], {"generate_answer"})
                                       \/ rets[m].end >= k

\* the generate_answer call has returned an envelope
EnvelopeReturned ==
    /\ stack = <<>>
    /\ rets # <<>>
    /\ IsReturnOf(rets[Len(rets)], {"generate_answer"})
    /\ ~rets[Len(rets)].raised
    /\ rets[Len(rets)].value.success \in BOOLEAN
    /\ rets[Len(rets)].value.conversation_id = rets[Len(rets)].frame.conversation_id
    /\ Len(calls) >= 2

\* C26: in every execution of generate_answer the collaborator requests come
\* in the order syllabus download, then retrieval (embedding and search
\* requests), then completion; the completion is requested at most once, and
\* only after the retrieval has returned at least one chunk; and the
\* execution ends by returning an envelope.
C26_OrderedCallsThenEnvelope == []CallsInOrder /\ <>EnvelopeReturned

\* generate_answer has returned after the three kinds of request: download,
\* retrieval, completion
C26_Witness ==
    /\ EnvelopeReturned
    /\ Len(calls) >= 4
    /\ calls[1].svc = "blob"
    /\ calls[2].svc = "embed"
    /\ calls[Len(calls)].svc = "chat"

\* the cache a recorded call of get_prompt left: the one the next call found,
\* or the present one
CacheAfter(n) == IF n < Len(rets) THEN rets[n + 1].frame.cache ELSE _prompts_cache

\* C29: once the cache has been preloaded at startup (initialize_prompt_loader
\* has completed), a call of get_prompt without reload=True leaves the cache
\* as it found it, whatever prompt type it asks for.
C29_ReadsLeaveTheCache ==
    \A n \in 1..Len(rets) :
        LET r == rets[n]
        IN  (IsReturnOf(r, {"get_prompt"}) /\ r.frame.loaded /\ ~r.frame.reload) =>
                CacheAfter(n) = r.frame.cache

\* C30: after the teardown of the orchestrator (RAGSystem.close, or the
\* shutdown of lifespan) has returned, every client of the orchestrator has
\* been released: its completion client, the embedding client and the search
\* client of its search system and its storage client, also when the release
\* of an earlier client raised.
C30_TeardownReleasesEveryClient ==
    \A n \in 1..Len(rets) :
        IsReturnOf(rets[n], {"close", "lifespan"}) => clients \cap RAGClients = {}

\* what does hold of RAGSystem.close: when no release raised, the three
\* clients it names are released, the search client is not
C30_CloseReleasesThreeClients ==
    \A n \in 1..Len(rets) :
        (IsReturnOf(rets[n], {"close"})
         /\ \A k \in (rets[n].frame.base + 1)..rets[n].end : ~calls[k].outcome.raised) =>
            clients \cap RAGClients = {"search_system.search_client"}

\* the one retrieval of r raised or found no chunk
RetrievedNothing(r) ==
    \A m \in Retrieved(r) : rets[m].raised \/ rets[m].value = <<>>

\* what generate_answer returns when it runs alone, from its arguments and
\* the answers its own collaborator requests got: the retrieval it awaited
\* and the completion it requested
AloneAnswer(r) ==
    LET m == CHOOSE m \in Retrieved(r) : TRUE
        results == rets[m].value
    IN  IF rets[m].raised THEN error_envelope(r.frame, ExceptionMessage)
        ELSE IF results = <<>> THEN no_content_envelope(r.frame)
        ELSE LET k == CHOOSE k \in Completions(r) : TRUE
                 o == calls[k].outcome
             IN  IF o.raised THEN error_envelope(r.frame, ExceptionMessage)
                 ELSE IF o.content = None THEN error_envelope(r.frame, NoneHasNoStrip)
                 ELSE success_envelope(r.frame, results,
                                       _build_context_from_chunks(results), strip(o.content))

\* what search_best_answers returns when it runs alone, from the answers its
\* own requests got
AloneBestAnswers(r) ==
    IF r.frame.original_results = <<>> THEN <<>> ELSE DedupById(Encountered(r))

\* the entries of the input histories of the waiting requests
OtherHistoryEntries ==
    {t.stack[1].conversation_history[e] :
        t \in {tasks[i] : i \in {j \in 1..Len(tasks) :
                   tasks[j].stack # <<>> /\ tasks[j].stack[1].fn = "generate_answer"}},
        e \in 1..1}

\* C28: a request that runs interleaved with another one on the same instance
\* returns what it returns alone for the same collaborator answers:
\* generate_answer the envelope made of its own arguments, its own retrieval
\* and its own completion, search_best_answers the expansion of its own
\* ranked chunks by its own lookups; no history entry of the other request
\* and no chunk outside the source it names is in the result.
C28_InterleavedAsAlone ==
    \A n \in 1..Len(rets) :
        LET r == rets[n]
        IN  /\ (IsReturnOf(r, {"generate_answer"}) /\ r.frame.base = 0) =>
                   /\ Cardinality(Retrieved(r)) = 1
                   /\ Cardinality(Completions(r)) = (IF RetrievedNothing(r) THEN 0 ELSE 1)
                   /\ r.value = AloneAnswer(r)
                   /\ \A e \in 1..Len(r.value.conversation_history) :
                          r.value.conversation_history[e] \notin OtherHistoryEntries
                   /\ \A i \in 1..Len(r.value.sources) :
                          Truthy(r.frame.source_id) =>
                              r.value.sources[i].source_id = r.frame.source_id
            /\ (IsReturnOf(r, {"search_best_answers"}) /\ r.frame.base = 0) =>
                   /\ r.value = AloneBestAnswers(r)
                   /\ \A i \in 1..Len(r.value) :
                          Truthy(r.frame.source_id) =>
                              r.value[i].source_id = r.frame.source_id

\* the first request has returned its answer with the history of its own
\* exchange while the second one, having made requests, waits at an await
C28_Witness ==
    /\ stack = <<>>
    /\ rets # <<>>
    /\ IsReturnOf(rets[Len(rets)], {"generate_answer"})
    /\ rets[Len(rets)].value.success = TRUE
    /\ rets[Len(rets)].frame.conversation_id = <<"c1">>
    /\ Len(rets[Len(rets)].value.conversation_history) = 3
    /\ tasks[1].stack # <<>>
    /\ Len(tasks[1].calls) >= 2

\* the embedding step of r gave a vector and its own backend query (of the
\* given kind) completed with no document
CompletedEmpty(r, kind) ==
    LET cs == CallsOf(r)
    IN  /\ Len(cs) >= 2
        /\ cs[1].svc = "embed" /\ cs[1].outcome = "vector"
        /\ cs[2].svc = "search" /\ cs[2].kind = kind
        /\ ~cs[2].outcome.raised /\ cs[2].outcome.docs = <<>>

\* the coroutines the returned frame rets[n] awaited
AwaitedBy(n) ==
    {m \in 1..Len(rets) : /\ m # n
                          /\ rets[m].frame.base >= rets[n].frame.base
                          /\ rets[m].end <= rets[n].end
                          /\ m < n}

\* C31: an empty result is a success: when the semantic request of
\* semantic_search completes with no chunk, semantic_search returns the empty
\* list having made no other request (no hybrid search, no text search); when
\* the hybrid request of hybrid_search completes with no chunk, hybrid_search
\* returns the empty list having made no text search.
C31_EmptyResultIsSuccess ==
    \A n \in 1..Len(rets) :
        LET r == rets[n]
            cs == CallsOf(r)
        IN  /\ (IsReturnOf(r, {"semantic_search"}) /\ CompletedEmpty(r, "semantic")) =>
                   /\ ~r.raised
                   /\ r.value = <<>>
                   /\ Len(cs) = 2
                   /\ AwaitedBy(n) = {}
            /\ (IsReturnOf(r, {"hybrid_search"}) /\ CompletedEmpty(r, "hybrid")) =>
                   /\ ~r.raised
                   /\ r.value = <<>>
                   /\ Len(cs) = 2
                   /\ AwaitedBy(n) = {}

\* C31 witness: a semantic_search or a hybrid_search has returned after its
\* own request completed with no chunk, over a scope that holds chunks
C31_Witness ==
    /\ stack = <<>>
    /\ \E n \in 1..Len(rets) :
           /\ IsReturnOf(rets[n], {"semantic_search", "hybrid_search"})
           /\ CompletedEmpty(rets[n], IF rets[n].frame.fn = "semantic_search"
                                      THEN "semantic" ELSE "hybrid")
           /\ Selected(CallsOf(rets[n])[2].filter) # {}

\* the backend queries of the given kind made while r ran
QueriesOf(r, kind) ==
    {k \in (r.frame.base + 1)..r.end : calls[k].svc = "search" /\ calls[k].kind = kind}

\* the semantic request of r and the hybrid request of its fallback both raised
SemanticAndHybridRaised(r) ==
    /\ SemanticRequestRaised(r)
    /\ \E k \in QueriesOf(r, "hybrid") : calls[k].outcome.raised

\* C32: when the semantic request and the hybrid request of a semantic_search
\* both raise (the embedding steps before them having given a vector),
\* semantic_search returns the empty list and makes no text request; and a
\* text request made by semantic_search or hybrid_search always comes directly
\* after an embedding request that failed.
C32_TextSearchOnlyAfterEmbeddingFailure ==
    /\ \A n \in 1..Len(rets) :
           LET r == rets[n]
           IN  (IsReturnOf(r, {"semantic_search"}) /\ SemanticAndHybridRaised(r)) =>
                   /\ ~r.raised
                   /\ r.value = <<>>
                   /\ QueriesOf(r, "text") = {}
                   /\ Len(CallsOf(r)) = 4
    /\ \A n \in 1..Len(rets) :
           LET r == rets[n]
           IN  IsReturnOf(r, {"semantic_search", "hybrid_search"}) =>
                   \A k \in QueriesOf(r, "text") :
                       /\ k - 1 > r.frame.base
                       /\ calls[k - 1].svc = "embed"
                       /\ calls[k - 1].outcome \in {"raise", "empty"}

\* C32 witness: semantic_search has returned after an embedding, a semantic
\* request that raised, a second embedding and a hybrid request that raised
C32_Witness ==
    \E n \in 1..Len(rets) :
        /\ IsReturnOf(rets[n], {"semantic_search"})
        /\ SemanticAndHybridRaised(rets[n])
        /\ rets[n].value = <<>>
        /\ CallsOf(rets[n])[3] = EmbedCall(rets[n].frame.query, "vector")

\* the requests made so far to the embedding service and to the search backend
EmbeddingRequests == {k \in 1..Len(calls) : calls[k].svc = "embed"}
BackendQueries == {k \in 1..Len(calls) : calls[k].svc = "search"}

\* the fallback chain goes one way: under semantic_search runs hybrid_search
\* or simple_text_search, under hybrid_search simple_text_search, under
\* simple_text_search nothing
ChainDepth(fn) ==
    CASE fn = "semantic_search" -> 1
      [] fn = "hybrid_search" -> 2
      [] fn = "simple_text_search" -> 3

AcyclicChain ==
    \A i \in 1..Len(stack) - 1 : ChainDepth(stack[i].fn) < ChainDepth(stack[i + 1].fn)

WithinBudget ==
    /\ Cardinality(EmbeddingRequests) <= 2
    /\ Cardinality(BackendQueries) <= 2

\* the call of semantic_search has returned
SemanticSearchReturned ==
    /\ stack = <<>>
    /\ rets # <<>>
    /\ IsReturnOf(rets[Len(rets)], {"semantic_search"})
    /\ rets[Len(rets)].frame.base = 0

\* C33: when every collaborator request is answered or raises, every call of
\* semantic_search returns; the coroutines it awaits never form a cycle
\* (semantic, then hybrid or text; hybrid, then text; text, nothing), and one
\* call makes at most 2 embedding requests and at most 2 backend queries.
C33_SemanticSearchTerminates ==
    [](AcyclicChain /\ WithinBudget) /\ <>SemanticSearchReturned

\* C33 witness: semantic_search has returned after 2 embedding requests and 2
\* backend queries, the last one the text request of the hybrid fallback
C33_Witness ==
    /\ SemanticSearchReturned
    /\ Cardinality(EmbeddingRequests) = 2
    /\ Cardinality(BackendQueries) = 2
    /\ calls[Len(calls)].kind = "text"

\* the embedding step of the hybrid_search r gave a vector and its request
\* to the backend was answered
HybridAnswered(r) ==
    LET cs == CallsOf(r)
    IN  /\ Len(cs) >= 2
        /\ cs[1].svc = "embed" /\ cs[1].outcome = "vector"
        /\ cs[2].svc = "search" /\ cs[2].kind = "hybrid" /\ ~cs[2].outcome.raised

\* C34: when its embedding step succeeds, hybrid_search asks the backend for a
\* pool of 50 candidates and returns the first min(top_k, number of results)
\* chunks of the backend's list, in the backend's order: never more than
\* top_k chunks and never more than the pool.
C34_HybridReturnsPrefixOfPool ==
    \A n \in 1..Len(rets) :
        LET r == rets[n]
            cs == CallsOf(r)
        IN  (IsReturnOf(r, {"hybrid_search"}) /\ HybridAnswered(r)) =>
                LET docs == cs[2].outcome.docs
                IN  /\ Len(cs) = 2
                    /\ cs[2].top = 50
                    /\ ~r.raised
                    /\ Len(r.value) = (IF r.frame.top_k < Len(docs) THEN r.frame.top_k
                                       ELSE Len(docs))
                    /\ \A i \in 1..Len(r.value) : r.value[i] = docs[i]
                    /\ Len(r.value) <= r.frame.top_k
                    /\ Len(r.value) <= 50

\* C34 witness: hybrid_search has returned fewer chunks than the backend
\* answered with, top_k of them
C34_Witness ==
    \E n \in 1..Len(rets) :
        /\ IsReturnOf(rets[n], {"hybrid_search"})
        /\ HybridAnswered(rets[n])
        /\ Len(CallsOf(rets[n])[2].outcome.docs) > rets[n].frame.top_k
        /\ Len(rets[n].value) = rets[n].frame.top_k

\* the chunks the primary search of the returned frame r ranked
RankedBy(r) == r.frame.original_results

\* C35: the list search_best_answers returns holds, for every ranked chunk
\* with a non-empty id, a chunk with that id, and holds at most 3 chunks per
\* ranked chunk; when the primary search ranked nothing it returns the empty
\* list and no neighbour lookup is made.
C35_RankedChunksKeptWithinThreefold ==
    \A n \in 1..Len(rets) :
        LET r == rets[n]
        IN  IsReturnOf(r, {"search_best_answers"}) =>
                /\ \A j \in 1..Len(RankedBy(r)) :
                       RankedBy(r)[j].id # "" =>
                           \E i \in 1..Len(r.value) : r.value[i].id = RankedBy(r)[j].id
                /\ Len(r.value) <= 3 * Len(RankedBy(r))
                /\ Len(AdjacentReturns(r)) = Len(RankedBy(r))
                /\ RankedBy(r) = <<>> =>
                       /\ r.value = <<>>
                       /\ Lookups(r) = <<>>

\* C35 witness: one ranked chunk has come back with both its neighbours, three
\* chunks for one
C35_Witness ==
    \E n \in 1..Len(rets) :
        /\ IsReturnOf(rets[n], {"search_best_answers"})
        /\ Len(RankedBy(rets[n])) = 1
        /\ Len(rets[n].value) = 3
        /\ rets[n].value[1] = RankedBy(rets[n])[1]

\* the primary search ranked nothing and search_best_answers has returned
C35_WitnessEmpty ==
    \E n \in 1..Len(rets) :
        /\ IsReturnOf(rets[n], {"search_best_answers"})
        /\ RankedBy(rets[n]) = <<>>
        /\ calls = <<>>

\* the list object the caller passed to the frame f holds the entries it held
\* at the call
CallerListIntact(f) == lists[f.history_ref] = f.conversation_history

\* C36: generate_answer and get_help never change the list of history entries
\* the caller passed: while they run and after they return, whatever the
\* outcome, that list has the length and the entries it had at the call; on
\* success the returned history is another list object, the caller's entries
\* followed by the two new ones, which are in no other list.
C36_CallerHistoryUntouched ==
    /\ \A i \in 1..Len(stack) :
           stack[i].fn \in {"generate_answer", "get_help"} => CallerListIntact(stack[i])
    /\ \A n \in 1..Len(rets) :
           LET r == rets[n]
           IN  IsReturnOf(r, {"generate_answer", "get_help"}) =>
                   /\ CallerListIntact(r.frame)
                   /\ Len(lists[r.frame.history_ref]) = Len(r.frame.conversation_history)
                   /\ r.value.success = TRUE =>
                          /\ Len(lists) = r.frame.history_ref + 1
                          /\ r.value.conversation_history = newest(lists)
                          /\ newest(lists) = lists[r.frame.history_ref]
                                             \o exchange_of(newest(lists))
                   /\ r.value.success = FALSE => Len(lists) = r.frame.history_ref

\* C36 witness: generate_answer has answered a caller whose list held two
\* entries; the list still holds the two, the returned one four
C36_Witness ==
    \E n \in 1..Len(rets) :
        /\ IsReturnOf(rets[n], {"generate_answer"})
        /\ rets[n].value.success = TRUE
        /\ Len(lists[1]) = 2
        /\ Len(rets[n].value.conversation_history) = 4

\* get_help has answered a caller whose list held two entries
C36_WitnessHelp ==
    \E n \in 1..Len(rets) :
        /\ IsReturnOf(rets[n], {"get_help"})
        /\ rets[n].value.success = TRUE
        /\ Len(lists[1]) = 2
        /\ Len(rets[n].value.conversation_history) = 4

\* a call has failed and the list of its caller still holds its two entries
C36_WitnessFailure ==
    \E n \in 1..Len(rets) :
        /\ IsReturnOf(rets[n], {"generate_answer", "get_help"})
        /\ rets[n].value.success = FALSE
        /\ "error" \in DOMAIN rets[n].value
        /\ Len(lists[1]) = 2

-----------------------------------------------------------------------------
(* get_adjacent_chunks on a chunk that lacks a field *)

\* the chunk has no non-empty source_id, no non-empty course_id, or no
\* chunk_index
LacksField(chunk) ==
    \/ chunk.source_id \in {None, <<>>}
    \/ chunk.course_id \in {None, <<>>}
    \/ "chunk_index" \notin DOMAIN chunk

\* C37: get_adjacent_chunks issues no backend lookup and returns the empty
\* list when the chunk lacks a non-empty source_id, a non-empty course_id or
\* a chunk_index; a chunk whose chunk_index is 0 and whose identifiers are
\* non-empty lacks nothing, and its lookup is issued.
C37_MissingFieldNoLookup ==
    \A n \in 1..Len(rets) :
        LET r == rets[n]
            chunk == r.frame.chunk
        IN  IsReturnOf(r, {"get_adjacent_chunks"}) =>
                /\ LacksField(chunk) => r.value = <<>> /\ CallsOf(r) = <<>>
                /\ ~LacksField(chunk) /\ chunk.chunk_index = 0 => CallsOf(r) # <<>>

C37_Witness ==
    \E n \in 1..Len(rets) :
        /\ IsReturnOf(rets[n], {"get_adjacent_chunks"})
        /\ "chunk_index" \notin DOMAIN rets[n].frame.chunk
        /\ Truthy(rets[n].frame.chunk.source_id)
        /\ Truthy(rets[n].frame.chunk.course_id)
        /\ rets[n].value = <<>>
        /\ CallsOf(rets[n]) = <<>>

C37_WitnessZero ==
    \E n \in 1..Len(rets) :
        /\ IsReturnOf(rets[n], {"get_adjacent_chunks"})
        /\ ~LacksField(rets[n].frame.chunk)
        /\ rets[n].frame.chunk.chunk_index = 0
        /\ CallsOf(rets[n]) # <<>>

C37_WitnessNoCourse ==
    \E n \in 1..Len(rets) :
        /\ IsReturnOf(rets[n], {"get_adjacent_chunks"})
        /\ Truthy(rets[n].frame.chunk.source_id)
        /\ rets[n].frame.chunk.course_id = <<>>
        /\ rets[n].value = <<>>
        /\ CallsOf(rets[n]) = <<>>

-----------------------------------------------------------------------------
(* The history get_help returns *)

\* the content the model gave to a get_help call that returned: its last call
\* is the completion request
ModelAnswer(r) == calls[r.end].outcome.content

\* C38: a get_help call that succeeds over a history of N entries returns a
\* history of N + 2 entries: the N entries in order, a user entry whose content
\* is the query as given, and an assistant entry whose content is the model's
\* answer without its surrounding whitespace; a get_help call that fails
\* returns no history and leaves no list longer than it was.
C38_HelpHistoryGrowsByExchange ==
    \A n \in 1..Len(rets) :
        LET r == rets[n]
            N == Len(r.frame.conversation_history)
        IN  IsReturnOf(r, {"get_help"}) =>
                /\ r.value.success = TRUE =>
                       LET history == r.value.conversation_history
                       IN  /\ Len(history) = N + 2
                           /\ SubSeq(history, 1, N) = r.frame.conversation_history
                           /\ history[N + 1].role = "user"
                           /\ history[N + 1].content = r.frame.query
                           /\ history[N + 2].role = "assistant"
                           /\ history[N + 2].content = strip(ModelAnswer(r))
                /\ r.value.success = FALSE =>
                       /\ "conversation_history" \notin DOMAIN r.value
                       /\ Len(lists) = r.frame.history_ref
                       /\ lists[r.frame.history_ref] = r.frame.conversation_history

\* a call over two entries succeeded on an answer that had whitespace around it
C38_Witness ==
    \E n \in 1..Len(rets) :
        /\ IsReturnOf(rets[n], {"get_help"})
        /\ rets[n].value.success = TRUE
        /\ Len(rets[n].frame.conversation_history) = 2
        /\ Len(rets[n].value.conversation_history) = 4
        /\ ModelAnswer(rets[n]) # strip(ModelAnswer(rets[n]))

\* a call failed after its completion request
C38_WitnessFailure ==
    \E n \in 1..Len(rets) :
        /\ IsReturnOf(rets[n], {"get_help"})
        /\ rets[n].value.success = FALSE
        /\ Len(rets[n].frame.conversation_history) = 2
        /\ CallsOf(rets[n]) # <<>>
        /\ calls[rets[n].end].svc = "chat"

\* a call was refused for its mode
C38_WitnessInvalidMode ==
    \E n \in 1..Len(rets) :
        /\ IsReturnOf(rets[n], {"get_help"})
        /\ rets[n].value.success = FALSE
        /\ rets[n].frame.mode = <<"quiz">>

====
